---- MODULE Spec2Model ----
(***************************************************************************)
(* Model of the Canon Protocol documentation generator                     *)
(* (scripts/process-specs.js and scripts/spec-to-markdown.js).             *)
(*                                                                         *)
(* Strings are sequences of one-character strings, so that the regular     *)
(* expressions, parseInt, startsWith and localeCompare of the scripts are  *)
(* computed character by character.                                        *)
(***************************************************************************)
EXTENDS Naturals, Integers, Sequences, FiniteSets, TLC

VARIABLES
    pc,              \* position of the script / of the function under study
    versions,        \* version strings of one group, in grouping order
    sortedVersions,  \* the group after specsByType[specName].sort(...)
    latestShown,     \* per document of the group: whether it is labelled latest
    tree,            \* files of canon-specs in the order the walk meets them
    specFiles,       \* result of findCanonSpecs
    allSpecs,        \* specs collected by the first pass
    typeHierarchy,   \* ordered map "name@version" -> spec.type
    specsByType,     \* ordered map specName -> specs
    docs,            \* the documents in the output directory
    writes,          \* number of writeFileSync calls on record documents
    renderCalls,     \* the generateMarkdown calls of the run: path, allVersions
    specIndex,       \* entries pushed after a successful render
    sidebar,         \* sidebarItems written to sidebars.ts
    indexWritten,    \* whether index.md was written
    log,             \* console.warn / console.error lines
    exitCode,        \* process exit code, -1 while running
    chainSpec,       \* the record whose derives-from chain is rendered
    hierarchy,       \* the rendered chain
    hops,            \* parent lookups done by the chain walk
    pageSpec,        \* the record and context given to generateMarkdown
    pageSections,    \* the sections of the returned document that are not empty
    attrSpec,        \* the instance record given to generateSpecContentSection
    typeSchemas,     \* ordered map typeUri -> keys of the type's schema
    attribution,     \* result of the field attribution
    contentFields,   \* the fields displayed in the Specification Content section
    indexFile,       \* docs/index.md: <<>> when absent, else <<its content>>
    summary,         \* the lines of the summary printed at the end of a run
    localCopy,       \* whether the directory canon-specs exists
    runs,            \* number of runs of the script started so far
    fetched,         \* what ensureCanonRepository did in this run
    before,          \* the output files and the local copy when the run started
    cmpIn,           \* three version strings given to compareVersions
    cmpOut,          \* the results of compareVersions on their pairs
    schemaGraph,     \* schema nodes, some reachable from themselves
    exampleOut,      \* result of generateExampleFromSchema on the root node
    formatOut        \* how the formatType calls of the schema section went

versionVars == <<versions, sortedVersions, latestShown>>
pipeVars == <<tree, specFiles, allSpecs, specsByType, docs, writes, renderCalls,
              specIndex, sidebar, indexWritten, log, exitCode>>
chainVars == <<chainSpec, hierarchy, hops, pageSpec, pageSections>>
attrVars == <<attrSpec, typeSchemas, attribution, contentFields>>
reportVars == <<indexFile, summary>>
runVars == <<localCopy, runs, fetched, before>>
orderVars == <<cmpIn, cmpOut>>
exampleVars == <<schemaGraph, exampleOut, formatOut>>
vars == <<pc, versionVars, pipeVars, typeHierarchy, chainVars, attrVars,
          reportVars, runVars, orderVars, exampleVars>>

----------------------------------------------------------------------------
(* Characters and strings *)

\* The characters in use, in the order localeCompare ranks them (the CLDR
\* root collation puts punctuation before digits before letters; among
\* these characters it agrees with code-unit order).
Alphabet ==
    <<"_", "-", ".", "/", "@",
      "0", "1", "2", "3", "4", "5", "6", "7", "8", "9",
      "a", "b", "c", "d", "e", "f", "g", "h", "i", "j", "k", "l", "m",
      "n", "o", "p", "q", "r", "s", "t", "u", "v", "w", "x", "y", "z">>

CollRank(c) == CHOOSE i \in 1..Len(Alphabet) : Alphabet[i] = c

DigitChars == <<"0", "1", "2", "3", "4", "5", "6", "7", "8", "9">>

IsDigit(c) == \E i \in 1..10 : DigitChars[i] = c

DigitVal(c) == (CHOOSE i \in 1..10 : DigitChars[i] = c) - 1

Drop(s, n) == SubSeq(s, n + 1, Len(s))

StartsWith(s, prefix) ==
    /\ Len(prefix) <= Len(s)
    /\ SubSeq(s, 1, Len(prefix)) = prefix

Includes(s, part) ==
    \E i \in 1..(Len(s) + 1) : StartsWith(Drop(s, i - 1), part)

\* String.prototype.localeCompare on the characters of Alphabet: -1, 0 or 1.
RECURSIVE LocaleCompare(_, _)
LocaleCompare(a, b) ==
    IF a = <<>> /\ b = <<>> THEN 0
    ELSE IF a = <<>> THEN -1
    ELSE IF b = <<>> THEN 1
    ELSE IF CollRank(Head(a)) < CollRank(Head(b)) THEN -1
    ELSE IF CollRank(Head(a)) > CollRank(Head(b)) THEN 1
    ELSE LocaleCompare(Tail(a), Tail(b))

\* The longest prefix of s matched by \d*.
RECURSIVE TakeDigits(_)
TakeDigits(s) ==
    IF s # <<>> /\ IsDigit(Head(s))
    THEN <<Head(s)>> \o TakeDigits(Tail(s))
    ELSE <<>>

\* parseInt of a string of decimal digits.
RECURSIVE ParseInt(_)
ParseInt(s) ==
    IF s = <<>> THEN 0
    ELSE ParseInt(SubSeq(s, 1, Len(s) - 1)) * 10 + DigitVal(s[Len(s)])

\* Array.prototype.sort: stable. cmp[i, j] is what the comparator returns for
\* s[i] and s[j]; each element is inserted after the last element already
\* placed that the comparator does not put after it. order holds positions
\* of s.
SortInsert(order, i, cmp) ==
    LET notAfter == {j \in 1..Len(order) : cmp[order[j], i] <= 0}
        k == IF notAfter = {} THEN 0
             ELSE CHOOSE j \in notAfter : \A m \in notAfter : m <= j
    IN SubSeq(order, 1, k) \o <<i>> \o SubSeq(order, k + 1, Len(order))

ArraySort(s, cmp) ==
    LET ins[i \in 0..Len(s)] ==
            IF i = 0 THEN <<>> ELSE SortInsert(ins[i - 1], i, cmp)
    IN [k \in 1..Len(s) |-> s[ins[Len(s)][k]]]

----------------------------------------------------------------------------
(* Version ordering: compareVersions *)

\* /^(\d+)\.(\d+)\.(\d+)(?:-(.+))?$/ : the match groups, or matched = FALSE.
VersionMatch(v) ==
    LET d1 == TakeDigits(v)
        r1 == Drop(v, Len(d1))
        d2 == IF r1 # <<>> /\ Head(r1) = "." THEN TakeDigits(Tail(r1)) ELSE <<>>
        r2 == IF r1 # <<>> THEN Drop(Tail(r1), Len(d2)) ELSE <<>>
        d3 == IF r2 # <<>> /\ Head(r2) = "." THEN TakeDigits(Tail(r2)) ELSE <<>>
        r3 == IF r2 # <<>> THEN Drop(Tail(r2), Len(d3)) ELSE <<>>
        tagged == Len(r3) >= 2 /\ Head(r3) = "-"
    IN [matched |-> /\ d1 # <<>> /\ d2 # <<>> /\ d3 # <<>>
                    /\ (r3 = <<>> \/ tagged),
        g1 |-> d1, g2 |-> d2, g3 |-> d3,
        g4 |-> IF tagged THEN Tail(r3) ELSE <<>>]

\* A variant that gives an unparseable version no prerelease.
ParseVersionUntagged(v) ==
    LET m == VersionMatch(v)
    IN IF ~m.matched
       THEN [major |-> 0, minor |-> 0, patch |-> 0, prerelease |-> <<>>]
       ELSE [major |-> ParseInt(m.g1), minor |-> ParseInt(m.g2),
             patch |-> ParseInt(m.g3), prerelease |-> m.g4]

ParseVersion(v) ==
    LET m == VersionMatch(v)
    IN IF ~m.matched
       THEN [major |-> 0, minor |-> 0, patch |-> 0, prerelease |-> v]
       ELSE [major |-> ParseInt(m.g1), minor |-> ParseInt(m.g2),
             patch |-> ParseInt(m.g3), prerelease |-> m.g4]

\* A variant that compares the numeric parts as text.
CompareVersionsTextual(a, b) ==
    LET ma == VersionMatch(a)
        mb == VersionMatch(b)
        va == ParseVersion(a)
        vb == ParseVersion(b)
    IN IF ma.g1 # mb.g1 THEN LocaleCompare(mb.g1, ma.g1)
       ELSE IF ma.g2 # mb.g2 THEN LocaleCompare(mb.g2, ma.g2)
       ELSE IF ma.g3 # mb.g3 THEN LocaleCompare(mb.g3, ma.g3)
       ELSE IF va.prerelease # <<>> /\ vb.prerelease = <<>> THEN 1
       ELSE IF va.prerelease = <<>> /\ vb.prerelease # <<>> THEN -1
       ELSE IF va.prerelease # <<>> /\ vb.prerelease # <<>>
            THEN LocaleCompare(va.prerelease, vb.prerelease)
       ELSE 0

CompareVersions(a, b) ==
    LET va == ParseVersion(a)
        vb == ParseVersion(b)
    IN IF va.major # vb.major THEN vb.major - va.major
       ELSE IF va.minor # vb.minor THEN vb.minor - va.minor
       ELSE IF va.patch # vb.patch THEN vb.patch - va.patch
       ELSE IF va.prerelease # <<>> /\ vb.prerelease = <<>> THEN 1
       ELSE IF va.prerelease = <<>> /\ vb.prerelease # <<>> THEN -1
       ELSE IF va.prerelease # <<>> /\ vb.prerelease # <<>>
            THEN LocaleCompare(va.prerelease, vb.prerelease)
       ELSE 0

SortVersionList(vs) ==
    ArraySort(vs, [i \in 1..Len(vs), j \in 1..Len(vs) |-> CompareVersions(vs[i], vs[j])])

\* A variant that takes every version without a prerelease tag as stable.
IsStableVersionAnyMajor(version) ==
    LET m == VersionMatch(version)
    IN m.matched /\ m.g4 = <<>>

IsStableVersion(version) ==
    LET m == VersionMatch(version)
    IN m.matched /\ ParseInt(m.g1) > 0 /\ m.g4 = <<>>

\* One group of the summary: versions are the group's versions, sorted.
\* latestStable is <<>> when no "Latest stable" line is printed.
SummaryLine(specName, vs) ==
    LET latest == vs[1]
        stableVersions == SelectSeq(vs, IsStableVersion)
    IN [specName |-> specName,
        count |-> Len(vs),
        latest |-> latest,
        stable |-> IsStableVersion(latest),
        latestStable |-> IF Len(stableVersions) > 0 /\ ~IsStableVersion(latest)
                         THEN <<stableVersions[1]>>
                         ELSE <<>>]

----------------------------------------------------------------------------
(* Version strings used as inputs *)

V2_0_0 == <<"2", ".", "0", ".", "0">>
V1_0_0 == <<"1", ".", "0", ".", "0">>
V1_0_0_beta == <<"1", ".", "0", ".", "0", "-", "b", "e", "t", "a">>
V1_0_0_rc1 == <<"1", ".", "0", ".", "0", "-", "r", "c", "1">>
V1_0_0_b == <<"1", ".", "0", ".", "0", "-", "b">>
V0_10_0 == <<"0", ".", "1", "0", ".", "0">>
V0_9_0 == <<"0", ".", "9", ".", "0">>
V0_9_9 == <<"0", ".", "9", ".", "9">>
V0_9_10 == <<"0", ".", "9", ".", "1", "0">>
V3_0_0_b == <<"3", ".", "0", ".", "0", "-", "b">>

VersionPool ==
    {V2_0_0, V1_0_0, V1_0_0_beta, V1_0_0_rc1, V1_0_0_b,
     V0_10_0, V0_9_0, V0_9_9, V0_9_10}

MaxVersions == 4

SeqsUpTo(S, n) == UNION {[1..k -> S] : k \in 0..n}

----------------------------------------------------------------------------
(* The source tree: paths and parsed contents of its files *)

PubP == <<"p">>
PubQ == <<"q">>
NameA == <<"a">>
NameAB == <<"a", "b">>
NameB == <<"b">>
NameC == <<"c">>
DirX == <<"x">>
CanonYml == <<"c", "a", "n", "o", "n", ".", "y", "m", "l">>
CanonYaml == <<"c", "a", "n", "o", "n", ".", "y", "a", "m", "l">>
ReadmeMd == <<"r", "e", "a", "d", "m", "e", ".", "m", "d">>
TitleT == <<"t">>
MetaTypeMark == <<"c", "a", "n", "o", "n", "-", "p", "r", "o", "t", "o", "c", "o", "l",
                  ".", "o", "r", "g", "/", "t", "y", "p", "e", "@">>
MetaRef == MetaTypeMark \o V1_0_0

\* The value of a spec's type key: absent, a number or a string.
NoType == [tag |-> "absent", str |-> <<>>]
NumType == [tag |-> "number", str |-> <<>>]
StrType(s) == [tag |-> "string", str |-> s]

\* What yaml.load makes of a file: it throws (syntaxError), returns undefined
\* (empty), a string (scalar) or an object (mapping) with these keys.
DocSyntaxError ==
    [kind |-> "syntaxError", page_order |-> <<>>, title |-> <<>>, type |-> NoType]
DocEmpty ==
    [kind |-> "empty", page_order |-> <<>>, title |-> <<>>, type |-> NoType]
DocScalar ==
    [kind |-> "scalar", page_order |-> <<>>, title |-> <<>>, type |-> NoType]
DocPlain ==
    [kind |-> "mapping", page_order |-> <<>>, title |-> <<>>, type |-> NoType]
DocOrder1 ==
    [kind |-> "mapping", page_order |-> <<1>>, title |-> TitleT,
     type |-> StrType(MetaRef)]
DocOrder2 ==
    [kind |-> "mapping", page_order |-> <<2>>, title |-> <<>>, type |-> NoType]
DocNumType ==
    [kind |-> "mapping", page_order |-> <<>>, title |-> TitleT, type |-> NumType]

\* Paths relative to canon-specs, in the order of a walk that reads every
\* directory sorted by name.
PathPool ==
    << <<CanonYml>>,
       <<PubP, NameA, V0_10_0, CanonYml>>,
       <<PubP, NameA, V0_9_0, CanonYaml>>,
       <<PubP, NameA, V0_9_0, CanonYml>>,
       <<PubP, NameA, CanonYml>>,
       <<PubP, NameAB, V1_0_0, CanonYml>>,
       <<PubP, NameB, V1_0_0_b, CanonYml>>,
       <<PubP, NameB, V1_0_0_b, ReadmeMd>>,
       <<PubP, NameC, V1_0_0, DirX, CanonYml>>,
       <<PubP, CanonYml>>,
       <<PubQ, NameA, V0_9_0, CanonYml>> >>

\* The contents a path of the pool may have.
DocsAt(path) ==
    IF path \in {<<CanonYml>>, <<PubP, CanonYml>>,
                 <<PubP, NameB, V1_0_0_b, ReadmeMd>>}
    THEN {DocPlain}
    ELSE {DocPlain, DocOrder1, DocOrder2}
         \cup (IF path \in {<<PubP, NameA, V0_10_0, CanonYml>>,
                            <<PubP, NameAB, V1_0_0, CanonYml>>}
               THEN {DocNumType} ELSE {})
         \cup (IF path \in {<<PubP, NameA, V0_9_0, CanonYaml>>,
                            <<PubQ, NameA, V0_9_0, CanonYml>>}
               THEN {DocSyntaxError, DocEmpty, DocScalar} ELSE {})

MaxFiles == 3

Reverse(s) == [i \in 1..Len(s) |-> s[Len(s) + 1 - i]]

PathSet == {PathPool[i] : i \in 1..Len(PathPool)}

AllDocs == UNION {DocsAt(p) : p \in PathSet}

\* The files at the paths chosen, with the contents given, in pool order.
TreeOf(chosen, content) ==
    LET ps == SelectSeq(PathPool, LAMBDA p : p \in chosen)
    IN [i \in 1..Len(ps) |-> [path |-> ps[i], doc |-> content[ps[i]]]]

----------------------------------------------------------------------------
(* Values of the variables a specification does not use *)

VersionsIdle == versions = <<>> /\ sortedVersions = <<>> /\ latestShown = <<>>

PipeIdle ==
    /\ tree = <<>> /\ specFiles = <<>> /\ allSpecs = <<>>
    /\ specsByType = <<>> /\ docs = {} /\ writes = 0 /\ specIndex = <<>>
    /\ renderCalls = <<>>
    /\ sidebar = <<>> /\ indexWritten = FALSE /\ log = <<>> /\ exitCode = -1

HierarchyIdle == typeHierarchy = <<>>

ChainIdle ==
    /\ chainSpec = <<>> /\ hierarchy = <<>> /\ hops = 0
    /\ pageSpec = <<>> /\ pageSections = <<>>

AttrIdle ==
    attrSpec = <<>> /\ typeSchemas = <<>> /\ attribution = <<>> /\ contentFields = {}

ReportIdle == indexFile = <<>> /\ summary = <<>>

RunsIdle ==
    /\ localCopy = TRUE /\ runs = 1 /\ fetched = "none" /\ before = <<>>

OrderIdle == cmpIn = <<>> /\ cmpOut = <<>>

ExampleIdle == schemaGraph = <<>> /\ exampleOut = <<>> /\ formatOut = <<>>

----------------------------------------------------------------------------
(* Specification SpecVersions: one group's versions are sorted *)

InitVersions ==
    /\ pc = "sortVersions"
    /\ versions \in SeqsUpTo(VersionPool, MaxVersions)
    /\ sortedVersions = <<>>
    /\ latestShown = <<>>
    /\ PipeIdle /\ HierarchyIdle /\ ChainIdle /\ AttrIdle
    /\ ReportIdle /\ RunsIdle /\ OrderIdle /\ ExampleIdle

\* specsByType[specName].sort((a, b) => compareVersions(a._info.version, ...))
SortVersionGroup ==
    /\ pc = "sortVersions"
    /\ sortedVersions' = SortVersionList(versions)
    /\ pc' = "versionsSorted"
    /\ UNCHANGED <<versions, latestShown, pipeVars, typeHierarchy, chainVars,
                   attrVars, reportVars, runVars, orderVars, exampleVars>>

\* generateMarkdown: isLatest, from a copy of allVersions sorted with
\* (a, b) => b.localeCompare(a).
IsLatest(allVersions, version) ==
    ArraySort(allVersions,
              [i \in 1..Len(allVersions), j \in 1..Len(allVersions) |->
                  LocaleCompare(allVersions[j], allVersions[i])])[1] = version

\* The second pass on one group: each document is rendered with the
\* versions of the sorted group as allVersions.
RenderGroupDocuments ==
    /\ pc = "versionsSorted"
    /\ latestShown' = [i \in 1..Len(sortedVersions) |->
                          IsLatest(sortedVersions, sortedVersions[i])]
    /\ pc' = "groupRendered"
    /\ UNCHANGED <<versions, sortedVersions, pipeVars, typeHierarchy, chainVars,
                   attrVars, reportVars, runVars, orderVars, exampleVars>>

NextVersions == SortVersionGroup \/ RenderGroupDocuments

SpecVersions == InitVersions /\ [][NextVersions]_vars

----------------------------------------------------------------------------
(* C1 *)

Count(s, x) == Cardinality({i \in 1..Len(s) : s[i] = x})

SameElements(s, t) ==
    /\ Len(s) = Len(t)
    /\ \A i \in 1..Len(s) : Count(s, s[i]) = Count(t, s[i])

\* x has to come before y: greater major, then minor, then patch, as numbers;
\* with equal numbers no tag before a tag, and a smaller tag before a greater.
MustPrecede(x, y) ==
    LET px == ParseVersion(x)
        py == ParseVersion(y)
    IN \/ px.major > py.major
       \/ px.major = py.major /\ px.minor > py.minor
       \/ px.major = py.major /\ px.minor = py.minor /\ px.patch > py.patch
       \/ /\ px.major = py.major /\ px.minor = py.minor /\ px.patch = py.patch
          /\ \/ px.prerelease = <<>> /\ py.prerelease # <<>>
             \/ /\ px.prerelease # <<>> /\ py.prerelease # <<>>
                /\ LocaleCompare(px.prerelease, py.prerelease) < 0

\* C1: a sorted group holds the versions it was given, and no version stands
\* after one it has to precede: descending by major, minor and patch as
\* numbers, an untagged version before the tagged ones of the same numbers,
\* tagged ones by their tags.
C1_SortedDescending ==
    pc = "versionsSorted" =>
        /\ SameElements(versions, sortedVersions)
        /\ \A i, j \in 1..Len(sortedVersions) :
               i < j => ~MustPrecede(sortedVersions[j], sortedVersions[i])

\* The example of the specification, sorted.
C1_Witness ==
    /\ pc = "versionsSorted"
    /\ versions = <<V1_0_0, V1_0_0_beta, V2_0_0, V0_9_9>>
    /\ sortedVersions = <<V2_0_0, V1_0_0, V1_0_0_beta, V0_9_9>>

\* C26: in a group of two or more versions the documents labelled latest
\* are exactly those of the group's latest version under the version order,
\* the version no other version of the group has to precede.
C26_OneLatestDocument ==
    (pc = "groupRendered" /\ Len(sortedVersions) >= 2) =>
        \A i \in 1..Len(sortedVersions) :
            latestShown[i] <=>
                \A j \in 1..Len(sortedVersions) :
                    ~MustPrecede(sortedVersions[j], sortedVersions[i])

\* Some document of the group is labelled latest, and the documents so
\* labelled are of one version.
C26_SomeLatestDocument ==
    (pc = "groupRendered" /\ Len(sortedVersions) >= 1) =>
        /\ \E i \in 1..Len(sortedVersions) : latestShown[i]
        /\ \A i, j \in 1..Len(sortedVersions) :
               (latestShown[i] /\ latestShown[j]) => sortedVersions[i] = sortedVersions[j]

----------------------------------------------------------------------------
(* processSpecs: discovery and first pass *)

Last(s) == s[Len(s)]

\* path.join of the segments.
RECURSIVE JoinPath(_)
JoinPath(parts) ==
    IF Len(parts) = 0 THEN <<>>
    ELSE IF Len(parts) = 1 THEN parts[1]
    ELSE parts[1] \o <<"/">> \o JoinPath(Tail(parts))

\* findCanonSpecs keeps the files named canon.yml or canon.yaml.
FindCanonSpecsIn(files) ==
    SelectSeq(files, LAMBDA f : Last(f.path) = CanonYml \/ Last(f.path) = CanonYaml)

NoInfo == [publisher |-> <<>>, specName |-> <<>>, version |-> <<>>, fullPath |-> <<>>]

\* extractSpecInfo: <<>> stands for null. parts are the segments of the
\* relative path, the file name included.
ExtractSpecInfo(parts) ==
    IF Len(parts) >= 3
    THEN <<[publisher |-> parts[1], specName |-> parts[2], version |-> parts[3],
            fullPath |-> JoinPath(parts)]>>
    ELSE <<>>

\* obj[key] = value on an object whose keys are kept in insertion order.
MapPut(m, k, v) ==
    IF \E i \in 1..Len(m) : m[i].key = k
    THEN [i \in 1..Len(m) |-> IF m[i].key = k THEN [key |-> k, val |-> v] ELSE m[i]]
    ELSE Append(m, [key |-> k, val |-> v])

MapHas(m, k) == \E i \in 1..Len(m) : m[i].key = k

MapGet(m, k) == m[CHOOSE i \in 1..Len(m) : m[i].key = k].val

HierarchyKey(info) == info.specName \o <<"@">> \o info.version

Truthy(type) == type.tag = "number" \/ (type.tag = "string" /\ type.str # <<>>)

\* One iteration of the first pass over specFiles.
FirstPassFile(acc, f) ==
    LET found == ExtractSpecInfo(f.path)
        where == JoinPath(f.path)
    IN IF Len(found) = 0
       THEN [acc EXCEPT !.log = Append(@, [kind |-> "skipped", subject |-> where])]
       ELSE IF f.doc.kind = "syntaxError" \/ f.doc.kind = "empty"
       \* yaml.load throws, or spec._info = ... throws on undefined
       THEN [acc EXCEPT !.log = Append(@, [kind |-> "readError", subject |-> where])]
       ELSE IF f.doc.kind = "scalar"
       \* the assignment to a property of a primitive is dropped
       THEN [acc EXCEPT !.allSpecs =
                 Append(@, [hasInfo |-> FALSE, info |-> NoInfo, doc |-> f.doc])]
       ELSE [acc EXCEPT
                !.allSpecs = Append(@, [hasInfo |-> TRUE, info |-> found[1], doc |-> f.doc]),
                !.typeHierarchy =
                    IF Truthy(f.doc.type)
                    THEN MapPut(@, HierarchyKey(found[1]), f.doc.type)
                    ELSE @]

FirstPassResult(files) ==
    LET step[i \in 0..Len(files)] ==
            IF i = 0
            THEN [allSpecs |-> <<>>, typeHierarchy |-> <<>>, log |-> <<>>]
            ELSE FirstPassFile(step[i - 1], files[i])
    IN step[Len(files)]

----------------------------------------------------------------------------
(* processSpecs: sorting and grouping *)

HasOrder(spec) == Len(spec.doc.page_order) = 1

\* The comparator of allSpecs.sort.
PageOrderCompare(a, b) ==
    IF HasOrder(a) /\ HasOrder(b) THEN a.doc.page_order[1] - b.doc.page_order[1]
    ELSE IF HasOrder(a) /\ ~HasOrder(b) THEN -1
    ELSE IF ~HasOrder(a) /\ HasOrder(b) THEN 1
    ELSE LocaleCompare(a.info.specName, b.info.specName)

GroupPush(m, spec) ==
    IF MapHas(m, spec.info.specName)
    THEN MapPut(m, spec.info.specName, Append(MapGet(m, spec.info.specName), spec))
    ELSE MapPut(m, spec.info.specName, <<spec>>)

GroupByName(specs) ==
    LET step[i \in 0..Len(specs)] ==
            IF i = 0 THEN <<>> ELSE GroupPush(step[i - 1], specs[i])
    IN step[Len(specs)]

CompareSpecVersions(a, b) == CompareVersions(a.info.version, b.info.version)

SortEachGroup(groups) ==
    [i \in 1..Len(groups) |->
        [key |-> groups[i].key, val |-> LET g == groups[i].val
                IN ArraySort(g, [a \in 1..Len(g), b \in 1..Len(g) |->
                                    CompareSpecVersions(g[a], g[b])])]]

----------------------------------------------------------------------------
(* processSpecs: second pass *)

\* generateMarkdown calls formatTypeReference(spec.type, true), which calls
\* type.match: a TypeError when the type is a number.
RenderThrows(spec) == spec.doc.type.tag = "number"

OutputPath(info) == info.specName \o <<"/">> \o info.version

TitleOr(spec) == IF spec.doc.title # <<>> THEN spec.doc.title ELSE spec.info.specName

\* One iteration of the second pass over allSpecs.
RenderSpec(acc, spec) ==
    IF RenderThrows(spec)
    THEN [acc EXCEPT !.log = Append(@, [kind |-> "processError",
                                         subject |-> HierarchyKey(spec.info)])]
    ELSE [acc EXCEPT
             !.docs = {d \in @ : d.path # OutputPath(spec.info)}
                        \cup {[path |-> OutputPath(spec.info),
                               source |-> spec.info.fullPath]},
             !.writes = @ + 1,
             !.specIndex = Append(@, [name |-> spec.info.specName,
                                      version |-> spec.info.version,
                                      title |-> TitleOr(spec),
                                      isStable |-> IsStableVersion(spec.info.version)])]

\* A variant that gives a render only the record's own version.
AllVersionsOwn(groups, spec) == <<spec.info.version>>

\* specsByType[specInfo.specName].map(s => s._info.version)
AllVersions(groups, spec) ==
    LET g == MapGet(groups, spec.info.specName)
    IN [j \in 1..Len(g) |-> g[j].info.version]

\* The calls of generateMarkdown the second pass makes, one for every spec of
\* allSpecs, with the output path and the allVersions of its context.
RenderCalls(specs, groups) ==
    [i \in 1..Len(specs) |->
        [path |-> OutputPath(specs[i].info),
         allVersions |-> AllVersions(groups, specs[i])]]

SecondPassResult(specs, docs0, log0) ==
    LET step[i \in 0..Len(specs)] ==
            IF i = 0
            THEN [docs |-> docs0, writes |-> 0, specIndex |-> <<>>, log |-> log0]
            ELSE RenderSpec(step[i - 1], specs[i])
    IN step[Len(specs)]

----------------------------------------------------------------------------
(* generateSidebarsConfig *)

OverviewItem ==
    [type |-> "doc", id |-> <<"i", "n", "d", "e", "x">>,
     label |-> <<"O", "v", "e", "r", "v", "i", "e", "w">>]

\* A variant that orders the groups by name alone.
GroupOrderCompareByName(a, b) == LocaleCompare(a.specName, b.specName)

\* The comparator of the sort of the groups, on the latest spec of each.
GroupOrderCompare(a, b) ==
    IF HasOrder(a.latestSpec) /\ HasOrder(b.latestSpec)
    THEN a.latestSpec.doc.page_order[1] - b.latestSpec.doc.page_order[1]
    ELSE IF HasOrder(a.latestSpec) /\ ~HasOrder(b.latestSpec) THEN -1
    ELSE IF ~HasOrder(a.latestSpec) /\ HasOrder(b.latestSpec) THEN 1
    ELSE LocaleCompare(a.specName, b.specName)

SortedGroups(groups) ==
    LET entries == [i \in 1..Len(groups) |->
                       [specName |-> groups[i].key,
                        latestSpec |-> groups[i].val[1],
                        latestVersion |-> groups[i].val[1].info.version]]
    IN ArraySort(entries, [a \in 1..Len(entries), b \in 1..Len(entries) |->
                              GroupOrderCompare(entries[a], entries[b])])

\* A variant that labels every entry with the group name.
SidebarItemNamed(g) ==
    [type |-> "doc", id |-> g.specName \o <<"/">> \o g.latestVersion,
     label |-> g.specName]

SidebarItem(g) ==
    [type |-> "doc", id |-> g.specName \o <<"/">> \o g.latestVersion,
     label |-> IF g.latestSpec.doc.title # <<>> THEN g.latestSpec.doc.title
               ELSE g.specName]

SidebarItems(groups) ==
    LET sorted == SortedGroups(groups)
    IN <<OverviewItem>> \o [i \in 1..Len(sorted) |-> SidebarItem(sorted[i])]

----------------------------------------------------------------------------
(* Specification Spec: one run of processSpecs on a fetched source tree *)

Init ==
    /\ pc = "scan"
    /\ \E chosen \in SUBSET PathSet :
         /\ Cardinality(chosen) <= MaxFiles
         /\ \E content \in [chosen -> AllDocs] :
              /\ \A p \in chosen : content[p] \in DocsAt(p)
              /\ tree \in {TreeOf(chosen, content), Reverse(TreeOf(chosen, content))}
    /\ specFiles = <<>> /\ allSpecs = <<>> /\ typeHierarchy = <<>>
    /\ specsByType = <<>> /\ docs = {} /\ writes = 0 /\ specIndex = <<>>
    /\ renderCalls = <<>>
    /\ sidebar = <<>> /\ indexWritten = FALSE /\ log = <<>> /\ exitCode = -1
    /\ VersionsIdle /\ ChainIdle /\ AttrIdle
    /\ ReportIdle /\ RunsIdle /\ OrderIdle /\ ExampleIdle

\* const specFiles = findCanonSpecs(CANON_REPO_PATH); return when none is found
Scan ==
    /\ pc = "scan"
    /\ specFiles' = FindCanonSpecsIn(tree)
    /\ IF Len(specFiles') = 0
       THEN pc' = "exited" /\ exitCode' = 0
       ELSE pc' = "firstPass" /\ UNCHANGED exitCode
    /\ UNCHANGED <<tree, allSpecs, typeHierarchy, specsByType, docs, writes,
                   renderCalls,
                   specIndex, sidebar, indexWritten, log,
                   versionVars, chainVars, attrVars,
                   reportVars, runVars, orderVars, exampleVars>>

FirstPass ==
    /\ pc = "firstPass"
    /\ LET r == FirstPassResult(specFiles)
       IN /\ allSpecs' = r.allSpecs
          /\ typeHierarchy' = r.typeHierarchy
          /\ log' = r.log
    /\ pc' = "sortSpecs"
    /\ UNCHANGED <<tree, specFiles, specsByType, docs, writes, renderCalls,
                   specIndex,
                   sidebar, indexWritten, exitCode,
                   versionVars, chainVars, attrVars,
                   reportVars, runVars, orderVars, exampleVars>>

\* allSpecs.sort(...) and the grouping loop. A spec without _info makes
\* a._info.specName or specInfo.specName throw a TypeError that nothing in
\* processSpecs catches.
SortAndGroup ==
    /\ pc = "sortSpecs"
    /\ IF \E i \in 1..Len(allSpecs) : ~allSpecs[i].hasInfo
       THEN /\ pc' = "rejected"
            /\ UNCHANGED <<allSpecs, specsByType>>
       ELSE /\ allSpecs' = ArraySort(allSpecs,
                                      [a \in 1..Len(allSpecs), b \in 1..Len(allSpecs) |->
                                          PageOrderCompare(allSpecs[a], allSpecs[b])])
            /\ specsByType' = GroupByName(allSpecs')
            /\ pc' = "sortVersions"
    /\ UNCHANGED <<tree, specFiles, typeHierarchy, docs, writes, renderCalls,
                   specIndex,
                   sidebar, indexWritten, log, exitCode,
                   versionVars, chainVars, attrVars,
                   reportVars, runVars, orderVars, exampleVars>>

SortGroupVersions ==
    /\ pc = "sortVersions"
    /\ specsByType' = SortEachGroup(specsByType)
    /\ pc' = "render"
    /\ UNCHANGED <<tree, specFiles, allSpecs, typeHierarchy, docs, writes,
                   renderCalls,
                   specIndex, sidebar, indexWritten, log, exitCode,
                   versionVars, chainVars, attrVars,
                   reportVars, runVars, orderVars, exampleVars>>

SecondPass ==
    /\ pc = "render"
    /\ LET r == SecondPassResult(allSpecs, docs, log)
       IN /\ docs' = r.docs
          /\ writes' = r.writes
          /\ specIndex' = r.specIndex
          /\ log' = r.log
    /\ renderCalls' = RenderCalls(allSpecs, specsByType)
    /\ pc' = "index"
    /\ UNCHANGED <<tree, specFiles, allSpecs, typeHierarchy, specsByType,
                   sidebar, indexWritten, exitCode,
                   versionVars, chainVars, attrVars,
                   reportVars, runVars, orderVars, exampleVars>>

\* generateIndexPage sorts the group names into categories ...
IndexCategories(groups) ==
    LET sorted == SortedGroups(groups)
    IN [i \in 1..Len(sorted) |-> sorted[i].specName]

\* ... and writes a fixed text: the template interpolates neither specs nor
\* categories, so the page has an entry for no group.
IndexMarkdown(specs, categories) == [id |-> "index", groups |-> <<>>]

GenerateIndexPage ==
    /\ pc = "index"
    /\ indexWritten' = TRUE
    /\ indexFile' = <<IndexMarkdown(specIndex, IndexCategories(specsByType))>>
    /\ pc' = "sidebars"
    /\ UNCHANGED <<tree, specFiles, allSpecs, typeHierarchy, specsByType, docs,
                   writes, renderCalls, specIndex, sidebar, log, exitCode,
                   versionVars, chainVars, attrVars,
                   summary, runVars, orderVars, exampleVars>>

GenerateSidebarsConfig ==
    /\ pc = "sidebars"
    /\ sidebar' = SidebarItems(specsByType)
    /\ pc' = "summary"
    /\ UNCHANGED <<tree, specFiles, allSpecs, typeHierarchy, specsByType, docs,
                   writes, renderCalls, specIndex, indexWritten, log, exitCode,
                   versionVars, chainVars, attrVars,
                   reportVars, runVars, orderVars, exampleVars>>

\* The summary loop over Object.entries(specsByType).
Summary(groups) ==
    [i \in 1..Len(groups) |->
        SummaryLine(groups[i].key,
                    [j \in 1..Len(groups[i].val) |-> groups[i].val[j].info.version])]

\* The summary is printed, processSpecs returns and the process ends with
\* code 0.
Complete ==
    /\ pc = "summary"
    /\ summary' = Summary(specsByType)
    /\ pc' = "exited"
    /\ exitCode' = 0
    /\ UNCHANGED <<tree, specFiles, allSpecs, typeHierarchy, specsByType, docs,
                   writes, renderCalls, specIndex, sidebar, indexWritten, log,
                   versionVars, chainVars, attrVars,
                   indexFile, runVars, orderVars, exampleVars>>

\* processSpecs().catch(error => { ...; process.exit(1) })
FatalExit ==
    /\ pc = "rejected"
    /\ pc' = "exited"
    /\ exitCode' = 1
    /\ UNCHANGED <<tree, specFiles, allSpecs, typeHierarchy, specsByType, docs,
                   writes, renderCalls, specIndex, sidebar, indexWritten, log,
                   versionVars, chainVars, attrVars,
                   reportVars, runVars, orderVars, exampleVars>>

Next ==
    \/ Scan
    \/ FirstPass
    \/ SortAndGroup
    \/ SortGroupVersions
    \/ SecondPass
    \/ GenerateIndexPage
    \/ GenerateSidebarsConfig
    \/ Complete
    \/ FatalExit

Spec == Init /\ [][Next]_vars

----------------------------------------------------------------------------
(* Properties of a run *)

RecordSet == {allSpecs[i] : i \in 1..Len(allSpecs)}

GroupNames == {r.info.specName : r \in RecordSet}

LogSet == {log[i] : i \in 1..Len(log)}

\* The group a navigation entry stands for, and the latest record of it.
NavGroup(i) ==
    CHOOSE g \in 1..Len(specsByType) :
        specsByType[g].key \o <<"/">> \o specsByType[g].val[1].info.version
            = sidebar[i].id

NavName(i) == specsByType[NavGroup(i)].key

NavLatest(i) == specsByType[NavGroup(i)].val[1]

\* C2: in the navigation, of two groups whose latest records carry page_order
\* the one with the smaller value is never after the other, no group without
\* page_order is before a group with one, and groups without page_order are
\* in lexicographic order of their names.
C2_GroupOrder ==
    sidebar # <<>> =>
        \A i, j \in 2..Len(sidebar) :
            i < j =>
                LET a == NavLatest(i)
                    b == NavLatest(j)
                IN /\ (Len(a.doc.page_order) = 1 /\ Len(b.doc.page_order) = 1)
                          => a.doc.page_order[1] <= b.doc.page_order[1]
                   /\ Len(b.doc.page_order) = 1 => Len(a.doc.page_order) = 1
                   /\ (Len(a.doc.page_order) = 0 /\ Len(b.doc.page_order) = 0)
                          => LocaleCompare(NavName(i), NavName(j)) < 0

\* Three groups: b with page_order 1, ab with page_order 2, a without.
C2_Witness ==
    /\ Len(sidebar) = 4
    /\ NavName(2) = NameB /\ NavLatest(2).doc.page_order = <<1>>
    /\ NavName(3) = NameAB /\ NavLatest(3).doc.page_order = <<2>>
    /\ NavName(4) = NameA /\ NavLatest(4).doc.page_order = <<>>

\* r is a latest record of the group name: no record of the group has to
\* precede it.
IsLatestOf(r, name) ==
    /\ r.info.specName = name
    /\ \A o \in RecordSet :
           o.info.specName = name => ~MustPrecede(o.info.version, r.info.version)

ExpectedItem(r) ==
    [type |-> "doc",
     id |-> r.info.specName \o <<"/">> \o r.info.version,
     label |-> IF r.doc.title # <<>> THEN r.doc.title ELSE r.info.specName]

\* C3: the navigation written is the Overview entry followed by exactly one
\* entry per group of the ingested records, with id <name>/<latest version>
\* and the latest record's title, or the group name, as label.
C3_NavigationStructure ==
    sidebar # <<>> =>
        /\ sidebar[1] = [type |-> "doc", id |-> <<"i", "n", "d", "e", "x">>,
                         label |-> <<"O", "v", "e", "r", "v", "i", "e", "w">>]
        /\ Len(sidebar) = 1 + Cardinality(GroupNames)
        /\ \A n \in GroupNames :
               \E i \in 2..Len(sidebar) :
                   \E r \in RecordSet : IsLatestOf(r, n) /\ sidebar[i] = ExpectedItem(r)

\* Group a with two versions, the latest titled, and an untitled group b.
C3_Witness ==
    /\ Len(sidebar) = 3
    /\ Len(allSpecs) = 3
    /\ \E i \in 2..3 :
           sidebar[i] = [type |-> "doc", id |-> NameA \o <<"/">> \o V0_10_0,
                         label |-> TitleT]
    /\ \E i \in 2..3 :
           sidebar[i] = [type |-> "doc", id |-> NameB \o <<"/">> \o V1_0_0_b,
                         label |-> NameB]

\* C4: after a run without rendering errors no two ingested records share
\* (publisher, name, version) or the output path, there are as many
\* documents as ingested records, and each record's document is its own.
C4_OneDocumentPerRecord ==
    (pc = "exited" /\ exitCode = 0
        /\ ~\E e \in LogSet : e.kind = "processError") =>
        /\ \A i, j \in 1..Len(allSpecs) :
               i # j =>
                   /\ <<allSpecs[i].info.publisher, allSpecs[i].info.specName,
                        allSpecs[i].info.version>>
                      # <<allSpecs[j].info.publisher, allSpecs[j].info.specName,
                          allSpecs[j].info.version>>
                   /\ OutputPath(allSpecs[i].info) # OutputPath(allSpecs[j].info)
        /\ Cardinality(docs) = Len(allSpecs)
        /\ \A r \in RecordSet :
               \E d \in docs :
                   d.path = OutputPath(r.info) /\ d.source = r.info.fullPath

Malformed(f) == f.doc.kind \in {"syntaxError", "empty", "scalar"}

FileSet == {specFiles[i] : i \in 1..Len(specFiles)}

\* A definition file at publisher/name/version with a mapping that renders.
ValidFile(f) ==
    /\ Len(f.path) = 4
    /\ f.doc.kind = "mapping"
    /\ f.doc.type.tag # "number"

HasNavEntry(name) ==
    \E i \in 2..Len(sidebar) : StartsWith(sidebar[i].id, name \o <<"/">>)

\* C8: a malformed definition file is logged with its path and yields no
\* record; the run ends with code zero, and every valid record has its
\* document, the index and a navigation entry of its group.
C8_MalformedFileIsSkipped ==
    pc = "exited" =>
        \A f \in FileSet :
            Malformed(f) =>
                /\ \E e \in LogSet :
                       e.kind = "readError" /\ e.subject = JoinPath(f.path)
                /\ \A r \in RecordSet :
                       r.doc.kind = "mapping" /\ r.info.fullPath # JoinPath(f.path)
                /\ exitCode = 0
                /\ \A g \in FileSet :
                       ValidFile(g) =>
                           /\ \E d \in docs : d.path = g.path[2] \o <<"/">> \o g.path[3]
                           /\ indexWritten
                           /\ HasNavEntry(g.path[2])

\* C9: in a completed run a definition file with fewer than 3 directories
\* above it is logged as skipped and yields nothing; every record comes from
\* a file at
\* publisher/name/version/<definition file> and carries those three names.
C9_ShortPathIsSkipped ==
    (pc = "exited" /\ exitCode = 0) =>
        /\ \A f \in FileSet :
               Len(f.path) - 1 < 3 =>
                   /\ \E e \in LogSet :
                          e.kind = "skipped" /\ e.subject = JoinPath(f.path)
                   /\ \A r \in RecordSet : r.info.fullPath # JoinPath(f.path)
                   /\ \A d \in docs : d.source # JoinPath(f.path)
        /\ \A r \in RecordSet :
               r.hasInfo =>
                   \E f \in FileSet :
                       /\ Len(f.path) = 4
                       /\ JoinPath(f.path) = r.info.fullPath
                       /\ r.info.publisher = f.path[1]
                       /\ r.info.specName = f.path[2]
                       /\ r.info.version = f.path[3]

\* C10: when rendering a record fails, the failure is logged with name and
\* version, the run goes on to its end, every other record has a document,
\* and the failing record is in no output: no document, no index entry and
\* no navigation entry is its own.
C10_RenderFailureIsContained ==
    (pc = "exited" /\ exitCode = 0) =>
        \A r \in RecordSet :
            RenderThrows(r) =>
                LET shared == \E o \in RecordSet :
                                  /\ ~RenderThrows(o)
                                  /\ OutputPath(o.info) = OutputPath(r.info)
                IN /\ \E e \in LogSet :
                          /\ e.kind = "processError"
                          /\ e.subject = r.info.specName \o <<"@">> \o r.info.version
                   /\ indexWritten /\ sidebar # <<>>
                   /\ \A o \in RecordSet :
                          ~RenderThrows(o) => \E d \in docs : d.path = OutputPath(o.info)
                   /\ \A d \in docs : d.source # r.info.fullPath
                   /\ ~shared =>
                          /\ \A d \in docs : d.path # OutputPath(r.info)
                          /\ \A i \in 1..Len(specIndex) :
                                 ~(specIndex[i].name = r.info.specName
                                   /\ specIndex[i].version = r.info.version)
                          /\ \A i \in 2..Len(sidebar) :
                                 sidebar[i].id # OutputPath(r.info)

\* The navigation processSpecs writes when the walk meets the files in the
\* order of files: discovery, first pass, sort, grouping, version sort and
\* generateSidebarsConfig.
NavigationOf(files) ==
    LET found == FirstPassResult(FindCanonSpecsIn(files)).allSpecs
        sorted == ArraySort(found, [a \in 1..Len(found), b \in 1..Len(found) |->
                                       PageOrderCompare(found[a], found[b])])
    IN SidebarItems(SortEachGroup(GroupByName(sorted)))

\* C24: the navigation is the same when the same files are discovered in
\* the reverse order.
C24_NavigationOrderDeterministic ==
    Len(sidebar) > 0 =>
        /\ sidebar = NavigationOf(tree)
        /\ sidebar = NavigationOf(Reverse(tree))

\* C24 for the runs in which no two groups have latest records with the
\* same page_order.
C24_WithDistinctPageOrders ==
    (Len(sidebar) > 0
        /\ \A i, j \in 1..Len(specsByType) :
               (i # j /\ HasOrder(specsByType[i].val[1])
                      /\ HasOrder(specsByType[j].val[1]))
               => specsByType[i].val[1].doc.page_order
                      # specsByType[j].val[1].doc.page_order)
    => C24_NavigationOrderDeterministic

\* C27: once the navigation is written, each of its entries other than
\* Overview has the id of a record document written in this run.
C27_NavigationReferencesDocuments ==
    Len(sidebar) > 0 =>
        \A i \in 2..Len(sidebar) : \E d \in docs : d.path = sidebar[i].id

\* C27 for the runs in which no render fails.
C27_WithoutRenderFailure ==
    (Len(sidebar) > 0 /\ \A r \in RecordSet : ~RenderThrows(r)) =>
        \A i \in 2..Len(sidebar) : \E d \in docs : d.path = sidebar[i].id

----------------------------------------------------------------------------
(* generateTypeHierarchySection: the derives-from chain *)

\* The least index >= from at which t holds c, or 0.
FirstIndex(t, c, from) ==
    IF \E i \in from..Len(t) : t[i] = c
    THEN CHOOSE i \in from..Len(t) : t[i] = c /\ \A k \in from..(i - 1) : t[k] # c
    ELSE 0

\* currentType.match(/([^/]+)\/([^@]+)@(.+)/), tried from position s on:
\* the second group of the leftmost match.
RECURSIVE TypeRefMatchFrom(_, _)
TypeRefMatchFrom(t, s) ==
    LET slash == FirstIndex(t, "/", s)
        at == IF slash = 0 THEN 0 ELSE FirstIndex(t, "@", slash + 1)
    IN IF s > Len(t) \/ slash = 0 \/ at = 0
       THEN [matched |-> FALSE, typeName |-> <<>>]
       ELSE IF slash = s \/ at = slash + 1 \/ at = Len(t)
       THEN TypeRefMatchFrom(t, IF slash = s THEN s + 1 ELSE slash + 1)
       ELSE [matched |-> TRUE, typeName |-> SubSeq(t, slash + 1, at - 1)]

TypeRefMatch(t) == TypeRefMatchFrom(t, 1)

\* Object.keys(typeHierarchy).find(key => key.startsWith(`${typeName}@`)):
\* the index of the first such key, or 0.
FindParentKey(th, typeName) ==
    LET hits == {i \in 1..Len(th) : StartsWith(th[i].key, typeName \o <<"@">>)}
    IN IF hits = {} THEN 0 ELSE CHOOSE i \in hits : \A k \in hits : i <= k

MaxDepth == 5

\* A variant that walks on whatever the depth.
DepthUnbounded(depth) == TRUE

\* depth < 5 in the condition of the while loop
DepthAllows(depth) == depth < MaxDepth

\* The while loop from its test on. w holds currentType, depth, visitedTypes,
\* hierarchy and the number of parent lookups done.
RECURSIVE WalkLoop(_, _)
WalkLoop(w, th) ==
    IF ~(w.currentType # <<>> /\ DepthAllows(w.depth)) THEN w
    ELSE IF Includes(w.currentType, MetaTypeMark)
    THEN [w EXCEPT !.hierarchy =
              Append(@, [kind |-> "meta", ref |-> w.currentType, more |-> FALSE])]
    ELSE IF w.currentType \in w.visitedTypes
    THEN [w EXCEPT !.hierarchy =
              Append(@, [kind |-> "circular", ref |-> w.currentType, more |-> FALSE])]
    ELSE
        LET pushed == Append(w.hierarchy,
                             [kind |-> "parent", ref |-> w.currentType, more |-> FALSE])
            seen == w.visitedTypes \cup {w.currentType}
            m == TypeRefMatch(w.currentType)
            parentKey == FindParentKey(th, m.typeName)
            parentType == th[parentKey].val
        IN IF ~m.matched
           THEN [w EXCEPT !.hierarchy = pushed, !.visitedTypes = seen]
           ELSE IF parentKey = 0
           THEN [w EXCEPT !.hierarchy = pushed, !.visitedTypes = seen,
                          !.hops = @ + 1]
           ELSE IF Truthy(parentType) /\ parentType.str # w.currentType
           THEN WalkLoop([currentType |-> parentType.str,
                          depth |-> w.depth + 1,
                          visitedTypes |-> seen,
                          hierarchy |-> [pushed EXCEPT ![Len(pushed)].more = TRUE],
                          hops |-> w.hops + 1], th)
           ELSE [w EXCEPT !.hierarchy = pushed, !.visitedTypes = seen,
                          !.hops = @ + 1]

TypeName == <<"t", "y", "p", "e">>

\* The chain of a spec: nothing for the meta-type and for a spec without type.
TypeHierarchyChain(spec, th) ==
    IF spec.specName = TypeName \/ ~Truthy(spec.type)
    THEN [hierarchy |-> <<>>, hops |-> 0]
    ELSE LET w == WalkLoop([currentType |-> spec.type.str,
                            depth |-> 0,
                            visitedTypes |-> {},
                            hierarchy |-> <<[kind |-> "self",
                                             ref |-> spec.specName \o <<"@">> \o spec.version,
                                             more |-> FALSE]>>,
                            hops |-> 0], th)
         IN [hierarchy |-> w.hierarchy, hops |-> w.hops]

----------------------------------------------------------------------------
(* Specification SpecChain: the chain of one record over a type hierarchy *)

TypeNamePool == <<NameA, NameB, NameC, <<"d">>, <<"e">>, <<"f">>, <<"g">>, <<"h">>>>

NumTypes == 5

V1 == <<"1">>

RefTo(name) == PubP \o <<"/">> \o name \o <<"@">> \o V1

ChainNames == {TypeNamePool[i] : i \in 1..NumTypes}

\* The declared type of a record: none, the meta-type or a type of the pool.
ChainTypes == {NoType, StrType(MetaRef)} \cup {StrType(RefTo(n)) : n \in ChainNames}

\* typeHierarchy as the first pass builds it from records name@1 with the
\* declared types given: a key for every record that has a type.
HierarchyOf(declared) ==
    LET names == SelectSeq(SubSeq(TypeNamePool, 1, NumTypes),
                           LAMBDA n : Truthy(declared[n]))
    IN [i \in 1..Len(names) |->
           [key |-> names[i] \o <<"@">> \o V1, val |-> declared[names[i]]]]

InitChain ==
    /\ pc = "chain"
    /\ \E declared \in [ChainNames -> ChainTypes] :
         /\ typeHierarchy = HierarchyOf(declared)
         /\ chainSpec = [publisher |-> PubP, specName |-> NameA, version |-> V1,
                         type |-> declared[NameA]]
    /\ hierarchy = <<>>
    /\ hops = 0
    /\ pageSpec = <<>> /\ pageSections = <<>>
    /\ VersionsIdle /\ PipeIdle /\ AttrIdle
    /\ ReportIdle /\ RunsIdle /\ OrderIdle /\ ExampleIdle

RenderTypeHierarchy ==
    /\ pc = "chain"
    /\ LET r == TypeHierarchyChain(chainSpec, typeHierarchy)
       IN hierarchy' = r.hierarchy /\ hops' = r.hops
    /\ pc' = "chainDone"
    /\ UNCHANGED <<chainSpec, pageSpec, pageSections, typeHierarchy,
                   versionVars, pipeVars, attrVars,
                   reportVars, runVars, orderVars, exampleVars>>

NextChain == RenderTypeHierarchy

SpecChain == InitChain /\ [][NextChain]_vars

----------------------------------------------------------------------------
(* Specification SpecHops: the chain over records of several versions *)

NumHopVersions == 2

HopVersions == [v \in 1..NumHopVersions |-> <<DigitChars[v + 1]>>]

\* The records of the index, name and version, in the order of one walk.
HopRecords ==
    [i \in 1..(2 * NumHopVersions) |->
        [specName |-> IF i <= NumHopVersions THEN NameA ELSE NameB,
         version |-> HopVersions[((i - 1) % NumHopVersions) + 1]]]

HopRef(pub, r) == pub \o <<"/">> \o r.specName \o <<"@">> \o r.version

\* The declared type of a record: none, the meta-type, a record of the
\* index, or the first record's name and version under another publisher.
HopTypes ==
    {NoType, StrType(MetaRef), StrType(HopRef(PubQ, HopRecords[1]))}
    \cup {StrType(HopRef(PubP, HopRecords[i])) : i \in 1..Len(HopRecords)}

\* typeHierarchy as the first pass builds it from the records in the order
\* given: a key name@version for every record that has a type.
HopHierarchy(records, declared) ==
    LET typed == SelectSeq(records, LAMBDA r : Truthy(declared[r]))
    IN [i \in 1..Len(typed) |->
           [key |-> HierarchyKey(typed[i]), val |-> declared[typed[i]]]]

InitHops ==
    /\ pc = "chain"
    /\ \E declared \in [{HopRecords[i] : i \in 1..Len(HopRecords)} -> HopTypes] :
       \E records \in {HopRecords, Reverse(HopRecords)} :
         /\ typeHierarchy = HopHierarchy(records, declared)
         /\ chainSpec = [publisher |-> PubP, specName |-> HopRecords[1].specName,
                         version |-> HopRecords[1].version,
                         type |-> declared[HopRecords[1]]]
    /\ hierarchy = <<>>
    /\ hops = 0
    /\ pageSpec = <<>> /\ pageSections = <<>>
    /\ VersionsIdle /\ PipeIdle /\ AttrIdle
    /\ ReportIdle /\ RunsIdle /\ OrderIdle /\ ExampleIdle

SpecHops == InitHops /\ [][NextChain]_vars

----------------------------------------------------------------------------
(* Properties of the chain *)

\* C6: the chain walk does at most 5 parent lookups and the chain has at most
\* 6 entries, whatever the type hierarchy.
C6_ChainBounded ==
    pc = "chainDone" => hops <= 5 /\ Len(hierarchy) <= 6

\* Five ancestors, none flagged circular, and a sixth that was found: the
\* walk was stopped by the depth bound.
C6_Witness ==
    /\ pc = "chainDone"
    /\ hops = 5
    /\ Len(hierarchy) = 6
    /\ hierarchy[6].kind = "parent"
    /\ hierarchy[6].more

\* The declared type of the record a reference names, <<>> when there is none.
DeclaredTypeOf(ref) ==
    LET hits == {i \in 1..Len(typeHierarchy) :
                    PubP \o <<"/">> \o typeHierarchy[i].key = ref}
    IN IF hits = {} THEN <<>>
       ELSE typeHierarchy[CHOOSE i \in hits : TRUE].val.str

\* The references met by following declared types from the record: the k-th.
RECURSIVE LinkAt(_)
LinkAt(k) ==
    IF k = 1 THEN chainSpec.type.str
    ELSE IF LinkAt(k - 1) = <<>> \/ Includes(LinkAt(k - 1), MetaTypeMark) THEN <<>>
    ELSE DeclaredTypeOf(LinkAt(k - 1))

\* The k-th reference repeats an earlier one, and no earlier one does.
FirstRepeatAt(k) ==
    /\ LinkAt(k) # <<>>
    /\ \E i \in 1..(k - 1) : LinkAt(i) = LinkAt(k) /\ k - i <= 4
    /\ \A j \in 1..(k - 1) : \A i \in 1..(j - 1) : LinkAt(i) # LinkAt(j)

\* C7: when the declared types lead back, within the 5 hops, to a reference
\* already on the chain through a cycle of length 1 to 4, the chain ends at
\* that reference, marked circular.
C7_CycleIsFlagged ==
    pc = "chainDone" =>
        \A k \in 2..5 :
            FirstRepeatAt(k) =>
                /\ Len(hierarchy) = k + 1
                /\ hierarchy[k + 1].kind = "circular"
                /\ hierarchy[k + 1].ref = LinkAt(k)

\* C28: every entry of the chain that is followed by another names a
\* record, and the next entry is the declared type the index holds for that
\* very name and version under that publisher; a reference for which the
\* index has no such entry ends the chain.
C28_ExactParentLookup ==
    pc = "chainDone" =>
        \A i \in 2..Len(hierarchy) :
            /\ i < Len(hierarchy) =>
                   hierarchy[i + 1].ref = DeclaredTypeOf(hierarchy[i].ref)
            /\ DeclaredTypeOf(hierarchy[i].ref) = <<>> => i = Len(hierarchy)

\* C28 when the index holds one version of every name, all of one publisher
\* (specification SpecChain).
C28_WithSingleVersions ==
    pc = "chainDone" =>
        \A i \in 2..(Len(hierarchy) - 1) :
            hierarchy[i + 1].ref = DeclaredTypeOf(hierarchy[i].ref)

----------------------------------------------------------------------------
(* generateMarkdown: the sections of a record's document *)

\* generateMarkdown(spec, specInfo, context): whether it throws, and the
\* sections of the text it returns that are not empty. p.type is the declared
\* type; p.metadata is "absent", "empty" (none of the listed fields) or
\* "titled"; p.includes is "absent", "empty" or "some"; p.versions is the
\* length of allVersions; p.sourceFiles tells whether context.sourceFiles has
\* a file; p.derived whether context.derivedTypes lists the record.
MarkdownSections(p) ==
    [throws |-> p.type.tag = "number",
     sections |->
        {"frontmatter", "header"}
        \cup (IF p.versions > 1 THEN {"versionNavigation"} ELSE {})
        \* generateTypeHierarchySection starts from '## Type Information'
        \* and returns it whatever the record holds
        \cup {"typeInformation"}
        \cup (IF p.metadata = "titled" THEN {"metadata"} ELSE {})
        \cup (IF p.schema THEN {"schema"} ELSE {})
        \* generateExamplesSection starts from '## Example Usage' and always
        \* adds the Complete Example block
        \cup {"examples"}
        \cup (IF p.sourceFiles THEN {"sourceFiles"} ELSE {})]

----------------------------------------------------------------------------
(* Specification SpecPage: one record is rendered *)

PageTypes == {NoType, NumType, StrType(MetaRef), StrType(RefTo(NameB))}

InitPage ==
    /\ pc = "page"
    /\ \E type \in PageTypes :
       \E metadata \in {"absent", "empty", "titled"} :
       \E schema \in BOOLEAN :
       \E includes \in {"absent", "empty", "some"} :
       \E nVersions \in 1..2 :
       \E sourceFiles \in BOOLEAN :
       \E derived \in BOOLEAN :
         pageSpec = [specName |-> NameA, type |-> type, metadata |-> metadata,
                     schema |-> schema, includes |-> includes,
                     versions |-> nVersions, sourceFiles |-> sourceFiles,
                     derived |-> derived]
    /\ pageSections = <<>>
    /\ chainSpec = <<>> /\ hierarchy = <<>> /\ hops = 0
    /\ VersionsIdle /\ PipeIdle /\ HierarchyIdle /\ AttrIdle
    /\ ReportIdle /\ RunsIdle /\ OrderIdle /\ ExampleIdle

GenerateMarkdown ==
    /\ pc = "page"
    /\ pageSections' = MarkdownSections(pageSpec)
    /\ pc' = "pageDone"
    /\ UNCHANGED <<pageSpec, chainSpec, hierarchy, hops, typeHierarchy,
                   versionVars, pipeVars, attrVars,
                   reportVars, runVars, orderVars, exampleVars>>

NextPage == GenerateMarkdown

SpecPage == InitPage /\ [][NextPage]_vars

\* C23: a record without metadata, schema and includes is rendered without
\* an error, and its document holds the front-matter, the header and the
\* version navigation and no other section: each other section is empty
\* when the record and the context hold nothing for it.
C23_BareRecordDocument ==
    (/\ pc = "pageDone"
     /\ pageSpec.metadata = "absent" /\ ~pageSpec.schema
     /\ pageSpec.includes = "absent"
     /\ pageSpec.type = NoType /\ ~pageSpec.derived /\ ~pageSpec.sourceFiles)
    => /\ ~pageSections.throws
       /\ pageSections.sections \subseteq {"frontmatter", "header", "versionNavigation"}
       /\ {"frontmatter", "header"} \subseteq pageSections.sections

\* The part of C23 that holds: such a record is rendered without an error,
\* with front-matter and header and without metadata and schema sections.
C23_RendersWithoutError ==
    (/\ pc = "pageDone"
     /\ pageSpec.metadata = "absent" /\ ~pageSpec.schema
     /\ pageSpec.includes = "absent" /\ pageSpec.type.tag # "number")
    => /\ ~pageSections.throws
       /\ {"frontmatter", "header"} \subseteq pageSections.sections
       /\ pageSections.sections \cap {"metadata", "schema"} = {}

----------------------------------------------------------------------------
(* generateSpecContentSection: attribution of the fields of an instance *)

KeyCanon == <<"c", "a", "n", "o", "n">>
KeyType == <<"t", "y", "p", "e">>
KeyMetadata == <<"m", "e", "t", "a", "d", "a", "t", "a">>
KeyIncludes == <<"i", "n", "c", "l", "u", "d", "e", "s">>
KeySchema == <<"s", "c", "h", "e", "m", "a">>
KeyInfo == <<"_", "i", "n", "f", "o">>
KeyTitle == <<"t", "i", "t", "l", "e">>
KeyTags == <<"t", "a", "g", "s">>
KeyNote == <<"n", "o", "t", "e">>

ProtocolFields == {KeyCanon, KeyType, KeyMetadata, KeyIncludes, KeySchema}

\* uri.match(/([^@]+)@(.+)/): the text matched, `${base}@${version}`.
TypeUriMatch(uri) ==
    LET starts == {i \in 1..Len(uri) : uri[i] # "@"}
        s == IF starts = {} THEN 0 ELSE CHOOSE i \in starts : \A k \in starts : i <= k
        at == IF s = 0 THEN 0 ELSE FirstIndex(uri, "@", s)
    IN IF s = 0 \/ at = 0 \/ at = Len(uri)
       THEN [matched |-> FALSE, typeUri |-> <<>>]
       ELSE [matched |-> TRUE, typeUri |-> Drop(uri, s - 1)]

\* typeSchemas[uri] is there and has a schema.
SchemaKnown(schemas, uri) == MapHas(schemas, uri) /\ MapGet(schemas, uri).hasSchema

\* typeSchemas[uri].schema[fieldName] is truthy.
SchemaDefines(schemas, uri, fieldName) ==
    SchemaKnown(schemas, uri) /\ fieldName \in MapGet(schemas, uri).fields

SpecFields(spec) ==
    SelectSeq(spec.keys, LAMBDA k : k \notin ProtocolFields /\ ~StartsWith(k, <<"_">>))

\* The include, in order, that the loop over spec.includes stops at for
\* fieldName: its index, or 0.
SourceInclude(spec, schemas, fieldName) ==
    LET hits == {i \in 1..Len(spec.includes) :
                    /\ TypeUriMatch(spec.includes[i]).matched
                    /\ SchemaDefines(schemas, TypeUriMatch(spec.includes[i]).typeUri,
                                     fieldName)}
    IN IF hits = {} THEN 0 ELSE CHOOSE i \in hits : \A k \in hits : i <= k

NoSection == [section |-> FALSE, baseTypeFields |-> <<>>, composedTypeFields |-> <<>>]

\* One iteration of the loop over specFields.
AttributeField(acc, spec, schemas, typeUri, fieldName) ==
    IF SchemaDefines(schemas, typeUri, fieldName)
    THEN [acc EXCEPT !.baseTypeFields = Append(@, fieldName)]
    ELSE LET i == SourceInclude(spec, schemas, fieldName)
         IN IF i = 0 THEN acc
            ELSE [acc EXCEPT !.composedTypeFields =
                      IF MapHas(@, spec.includes[i])
                      THEN MapPut(@, spec.includes[i],
                                  Append(MapGet(@, spec.includes[i]), fieldName))
                      ELSE MapPut(@, spec.includes[i], <<fieldName>>)]

\* generateSpecContentSection up to the attribution: the early returns and
\* the loop over the fields.
AttributeFields(spec, schemas) ==
    IF spec.type.tag # "string" \/ spec.type.str = <<>> THEN NoSection
    ELSE IF Includes(spec.type.str, MetaTypeMark) THEN NoSection
    ELSE IF ~TypeUriMatch(spec.type.str).matched THEN NoSection
    ELSE IF ~SchemaKnown(schemas, TypeUriMatch(spec.type.str).typeUri) THEN NoSection
    ELSE IF Len(SpecFields(spec)) = 0 THEN NoSection
    ELSE LET fields == SpecFields(spec)
             typeUri == TypeUriMatch(spec.type.str).typeUri
             step[i \in 0..Len(fields)] ==
                 IF i = 0
                 THEN [section |-> TRUE, baseTypeFields |-> <<>>,
                       composedTypeFields |-> <<>>]
                 ELSE AttributeField(step[i - 1], spec, schemas, typeUri, fields[i])
         IN step[Len(fields)]

\* The rest of generateSpecContentSection: the fields generateFieldDisplay is
\* called for, first those of the base type, then those of each composed type
\* whose schema is found again.
DisplayedFields(attr, schemas) ==
    IF ~attr.section THEN {}
    ELSE {attr.baseTypeFields[i] : i \in 1..Len(attr.baseTypeFields)}
         \cup UNION {{attr.composedTypeFields[k].val[i] :
                         i \in 1..Len(attr.composedTypeFields[k].val)} :
                     k \in {j \in 1..Len(attr.composedTypeFields) :
                               /\ TypeUriMatch(attr.composedTypeFields[j].key).matched
                               /\ SchemaKnown(schemas,
                                      TypeUriMatch(attr.composedTypeFields[j].key).typeUri)}}

----------------------------------------------------------------------------
(* Specification SpecAttr: the fields of one instance record are attributed *)

BaseRef == RefTo(NameB)
UnknownRef == RefTo(<<"u">>)
IncludeRefs == {RefTo(<<"i">>), RefTo(<<"j">>)}

MaxIncludes == 2

\* What typeSchemas holds for a type: nothing, a spec without schema, or a
\* schema defining some of title and tags.
SchemaChoices ==
    {[known |-> FALSE, hasSchema |-> FALSE, fields |-> {}],
     [known |-> TRUE, hasSchema |-> FALSE, fields |-> {}]}
    \cup {[known |-> TRUE, hasSchema |-> TRUE, fields |-> fs] :
             fs \in SUBSET {KeyTitle, KeyTags}}

AttrTypeOrder == <<BaseRef, RefTo(<<"i">>), RefTo(<<"j">>)>>

SchemasOf(choice) ==
    LET uris == SelectSeq(AttrTypeOrder, LAMBDA u : choice[u].known)
    IN [i \in 1..Len(uris) |->
           [key |-> uris[i],
            val |-> [hasSchema |-> choice[uris[i]].hasSchema,
                     fields |-> choice[uris[i]].fields]]]

OptionalKeys == <<KeyTitle, KeyTags, KeyNote>>

InitAttr ==
    /\ pc = "attribute"
    /\ \E type \in {BaseRef, UnknownRef} :
       \E incl \in SeqsUpTo(IncludeRefs, MaxIncludes) :
       \E set \in SUBSET {KeyTitle, KeyTags, KeyNote} :
         attrSpec = [type |-> StrType(type),
                     includes |-> incl,
                     keys |-> <<KeyCanon, KeyType, KeyIncludes>>
                              \o SelectSeq(OptionalKeys, LAMBDA k : k \in set)
                              \o <<KeyInfo>>]
    /\ \E choice \in [{BaseRef} \cup IncludeRefs -> SchemaChoices] :
         typeSchemas = SchemasOf(choice)
    /\ attribution = <<>>
    /\ contentFields = {}
    /\ VersionsIdle /\ PipeIdle /\ HierarchyIdle /\ ChainIdle
    /\ ReportIdle /\ RunsIdle /\ OrderIdle /\ ExampleIdle

GenerateSpecContentSection ==
    /\ pc = "attribute"
    /\ attribution' = AttributeFields(attrSpec, typeSchemas)
    /\ contentFields' = DisplayedFields(attribution', typeSchemas)
    /\ pc' = "attributed"
    /\ UNCHANGED <<attrSpec, typeSchemas, typeHierarchy,
                   versionVars, pipeVars, chainVars,
                   reportVars, runVars, orderVars, exampleVars>>

NextAttr == GenerateSpecContentSection

SpecAttr == InitAttr /\ [][NextAttr]_vars

----------------------------------------------------------------------------
(* Properties of the attribution *)

Elems(q) == {q[i] : i \in 1..Len(q)}

AttributedToBase(f) == f \in Elems(attribution.baseTypeFields)

AttributedToInclude(f, uri) ==
    \E i \in 1..Len(attribution.composedTypeFields) :
        /\ attribution.composedTypeFields[i].key = uri
        /\ f \in Elems(attribution.composedTypeFields[i].val)

\* The schema known for the type uri defines the field.
Defines(uri, f) ==
    \E i \in 1..Len(typeSchemas) :
        /\ typeSchemas[i].key = uri
        /\ typeSchemas[i].val.hasSchema
        /\ f \in typeSchemas[i].val.fields

Reserved(k) ==
    k \in {KeyCanon, KeyType, KeyMetadata, KeyIncludes, KeySchema} \/ Head(k) = "_"

\* The position in includes of the first type whose schema defines f, or 0.
FirstDefining(f) ==
    LET hits == {i \in 1..Len(attrSpec.includes) : Defines(attrSpec.includes[i], f)}
    IN IF hits = {} THEN 0 ELSE CHOOSE i \in hits : \A k \in hits : i <= k

\* C5: a field that is not reserved is attributed to the base type when the
\* declared type's schema defines it; otherwise to the first type in includes
\* order whose schema defines it, and to no other.
C5_FieldAttribution ==
    pc = "attributed" =>
        \A f \in Elems(attrSpec.keys) :
            ~Reserved(f) =>
                IF Defines(attrSpec.type.str, f)
                THEN /\ AttributedToBase(f)
                     /\ \A u \in IncludeRefs : ~AttributedToInclude(f, u)
                ELSE /\ ~AttributedToBase(f)
                     /\ \A u \in IncludeRefs :
                            AttributedToInclude(f, u) <=>
                                /\ FirstDefining(f) # 0
                                /\ u = attrSpec.includes[FirstDefining(f)]

\* C5 for the records whose declared type has a known schema.
C5_WithKnownBaseSchema ==
    (pc = "attributed"
        /\ \E i \in 1..Len(typeSchemas) :
               typeSchemas[i].key = attrSpec.type.str /\ typeSchemas[i].val.hasSchema)
    => C5_FieldAttribution

BaseSchemaKnown ==
    \E i \in 1..Len(typeSchemas) :
        typeSchemas[i].key = attrSpec.type.str /\ typeSchemas[i].val.hasSchema

\* No known schema, of the declared type or of an included type, defines f.
DefinedNowhere(f) ==
    /\ ~Defines(attrSpec.type.str, f)
    /\ \A i \in 1..Len(attrSpec.includes) : ~Defines(attrSpec.includes[i], f)

\* C21: a field that is not reserved and that no known schema defines is
\* attributed to no type and is still displayed in the record's document.
C21_UnattributedFieldRendered ==
    pc = "attributed" =>
        \A f \in Elems(attrSpec.keys) :
            (~Reserved(f) /\ DefinedNowhere(f)) =>
                /\ ~AttributedToBase(f)
                /\ \A u \in IncludeRefs : ~AttributedToInclude(f, u)
                /\ f \in contentFields

\* The part of C21 that the section does keep: such a field is attributed to
\* no type.
C21_LeftUnattributed ==
    pc = "attributed" =>
        \A f \in Elems(attrSpec.keys) :
            (~Reserved(f) /\ DefinedNowhere(f)) =>
                /\ ~AttributedToBase(f)
                /\ \A u \in IncludeRefs : ~AttributedToInclude(f, u)

\* C29: when the declared type has no known schema, a field that the schema
\* of an included type defines is attributed to the first such included type
\* and displayed.
C29_AttributionWithoutBaseSchema ==
    (pc = "attributed" /\ ~BaseSchemaKnown) =>
        \A f \in Elems(attrSpec.keys) :
            (~Reserved(f) /\ FirstDefining(f) # 0) =>
                /\ AttributedToInclude(f, attrSpec.includes[FirstDefining(f)])
                /\ f \in contentFields

----------------------------------------------------------------------------
(* ensureCanonRepository, and the script run again on the same directories *)

\* A variant that goes on without a local copy.
AfterCloneFailureGoesOn(local) ==
    [exit |-> FALSE, exists |-> FALSE, tree |-> <<>>, did |-> "cloneFailed"]

\* The clone failed: process.exit(1).
AfterCloneFailure(local) ==
    [exit |-> TRUE, exists |-> FALSE, tree |-> <<>>, did |-> "cloneFailed"]

\* A variant in which a failed pull ends the run.
AfterPullFailureExits(local) ==
    [exit |-> TRUE, exists |-> TRUE, tree |-> local, did |-> "pullFailed"]

\* The pull failed: a warning, and the local copy stays as it was.
AfterPullFailure(local) ==
    [exit |-> FALSE, exists |-> TRUE, tree |-> local, did |-> "pullFailed"]

\* ensureCanonRepository: exists is fs.existsSync(CANON_REPO_PATH), ok
\* whether execSync returns, local the tree of the local copy and fetchedTree
\* the tree the remote repository holds.
EnsureRepository(exists, ok, local, fetchedTree) ==
    IF ~exists
    THEN IF ok
         THEN [exit |-> FALSE, exists |-> TRUE, tree |-> fetchedTree, did |-> "cloned"]
         ELSE AfterCloneFailure(local)
    ELSE IF ok
         THEN [exit |-> FALSE, exists |-> TRUE, tree |-> fetchedTree, did |-> "pulled"]
         ELSE AfterPullFailure(local)

\* The source trees of the runs: some of four files, one of them a bare scalar.
RunPaths ==
    {<<PubP, NameA, V0_10_0, CanonYml>>, <<PubP, NameA, V0_9_0, CanonYml>>,
     <<PubP, NameA, V0_9_0, CanonYaml>>, <<PubP, NameB, V1_0_0_b, CanonYml>>}

RunDocAt(path) ==
    IF path = <<PubP, NameA, V0_10_0, CanonYml>> THEN DocOrder1
    ELSE IF path = <<PubP, NameA, V0_9_0, CanonYaml>> THEN DocScalar
    ELSE DocPlain

MaxRunFiles == 2

MaxRuns == 3

RunTrees ==
    {TreeOf(chosen, [p \in chosen |-> RunDocAt(p)]) :
        chosen \in {c \in SUBSET RunPaths : Cardinality(c) <= MaxRunFiles}}

\* The files the script may write, and the local copy, as a run finds them.
Snapshot ==
    [docs |-> docs, sidebar |-> sidebar, indexFile |-> indexFile,
     tree |-> tree, exitCode |-> exitCode,
     allOk |-> before.allOk /\ exitCode = 0]

InitRuns ==
    /\ pc = "fetch"
    /\ localCopy \in BOOLEAN
    /\ tree \in (IF localCopy THEN RunTrees ELSE {<<>>})
    /\ specFiles = <<>> /\ allSpecs = <<>> /\ typeHierarchy = <<>>
    /\ specsByType = <<>> /\ docs = {} /\ writes = 0 /\ specIndex = <<>>
    /\ renderCalls = <<>>
    /\ sidebar = <<>> /\ indexWritten = FALSE /\ log = <<>> /\ exitCode = -1
    /\ indexFile = <<>> /\ summary = <<>>
    /\ runs = 1 /\ fetched = "none"
    /\ before = [docs |-> {}, sidebar |-> <<>>, indexFile |-> <<>>,
                 tree |-> tree, exitCode |-> -1, allOk |-> TRUE]
    /\ VersionsIdle /\ ChainIdle /\ AttrIdle /\ OrderIdle /\ ExampleIdle

\* processSpecs calls ensureCanonRepository first.
EnsureCanonRepository ==
    /\ pc = "fetch"
    /\ \E ok \in BOOLEAN : \E fetchedTree \in RunTrees :
         LET r == EnsureRepository(localCopy, ok, tree, fetchedTree)
         IN /\ localCopy' = r.exists
            /\ tree' = r.tree
            /\ fetched' = r.did
            /\ IF r.exit
               THEN pc' = "exited" /\ exitCode' = 1
               ELSE pc' = "scan" /\ UNCHANGED exitCode
    /\ UNCHANGED <<specFiles, allSpecs, typeHierarchy, specsByType, docs, writes,
                   renderCalls,
                   specIndex, sidebar, indexWritten, log, runs, before,
                   versionVars, chainVars, attrVars, reportVars, orderVars,
                   exampleVars>>

\* The script is started again: what it holds in memory starts afresh, the
\* files stay. The local copy may have been removed in between.
StartRun ==
    /\ pc = "exited"
    /\ runs < MaxRuns
    /\ runs' = runs + 1
    /\ \E kept \in BOOLEAN :
         /\ localCopy' = (localCopy /\ kept)
         /\ tree' = IF localCopy /\ kept THEN tree ELSE <<>>
         /\ before' = [Snapshot EXCEPT !.tree = tree']
    /\ specFiles' = <<>> /\ allSpecs' = <<>> /\ typeHierarchy' = <<>>
    /\ specsByType' = <<>> /\ writes' = 0 /\ specIndex' = <<>>
    /\ renderCalls' = <<>>
    /\ indexWritten' = FALSE /\ log' = <<>> /\ exitCode' = -1
    /\ summary' = <<>> /\ fetched' = "none"
    /\ pc' = "fetch"
    /\ UNCHANGED <<docs, sidebar, indexFile,
                   versionVars, chainVars, attrVars, orderVars, exampleVars>>

NextRuns ==
    \/ EnsureCanonRepository
    \/ Scan
    \/ FirstPass
    \/ SortAndGroup
    \/ SortGroupVersions
    \/ SecondPass
    \/ GenerateIndexPage
    \/ GenerateSidebarsConfig
    \/ Complete
    \/ FatalExit
    \/ StartRun

SpecRuns == InitRuns /\ [][NextRuns]_vars

----------------------------------------------------------------------------
(* Properties of the fetch step and of repeated runs *)

OutputUnchanged ==
    /\ docs = before.docs
    /\ sidebar = before.sidebar
    /\ indexFile = before.indexFile

\* C11: when there is no local copy and the clone fails, the run ends with a
\* non-zero exit code before discovery starts, and no output file is
\* created, modified or deleted.
C11_CloneFailureAborts ==
    fetched = "cloneFailed" =>
        /\ pc = "exited" /\ exitCode = 1
        /\ specFiles = <<>> /\ allSpecs = <<>>
        /\ writes = 0 /\ ~indexWritten
        /\ OutputUnchanged

\* A clone fails over an output directory that earlier runs filled.
C11_Witness ==
    /\ fetched = "cloneFailed"
    /\ pc = "exited"
    /\ before.docs # {} /\ Len(before.sidebar) > 1 /\ before.indexFile # <<>>

\* C12: when a local copy exists and the pull fails, the run goes on to
\* discovery and generation with the local copy as it was, ends as the run on
\* that copy ends, and leaves the outputs that a run on that copy leaves.
C12_PullFailureIsWarning ==
    fetched = "pullFailed" =>
        /\ pc # "fetch"
        /\ localCopy /\ tree = before.tree
        /\ pc = "exited" =>
              /\ specFiles = FindCanonSpecsIn(tree)
              /\ exitCode = 0 \/ \E i \in 1..Len(allSpecs) : ~allSpecs[i].hasInfo
              /\ (exitCode = 0 /\ Len(specFiles) > 0) =>
                    /\ indexWritten
                    /\ sidebar = SidebarItems(specsByType)
                    /\ \A i \in 1..Len(allSpecs) :
                           \E d \in docs : d.path = OutputPath(allSpecs[i].info)
              /\ runs > 1 => exitCode = before.exitCode /\ OutputUnchanged

\* A pull fails in a later run, and the run completes on the records of the
\* local copy.
C12_Witness ==
    /\ fetched = "pullFailed"
    /\ pc = "exited" /\ exitCode = 0
    /\ runs > 1
    /\ Len(allSpecs) > 0 /\ docs # {}

\* Discovery and everything after it have not begun in this run.
NothingDiscovered ==
    /\ specFiles = <<>> /\ allSpecs = <<>> /\ specsByType = <<>>
    /\ renderCalls = <<>> /\ writes = 0 /\ ~indexWritten
    /\ sidebar = before.sidebar

\* Every definition file with a mapping at publisher/name/version has its
\* record, every record is in the group of its name, and no group holds a
\* version after one it has to precede.
ParsedGroupedSorted ==
    /\ \A f \in FileSet :
           (Len(f.path) = 4 /\ f.doc.kind = "mapping") =>
               \E r \in RecordSet : r.info.fullPath = JoinPath(f.path)
    /\ \A r \in RecordSet :
           \E g \in 1..Len(specsByType) :
               /\ specsByType[g].key = r.info.specName
               /\ \E k \in 1..Len(specsByType[g].val) : specsByType[g].val[k] = r
    /\ \A g \in 1..Len(specsByType) :
           /\ Len(specsByType[g].val) =
                  Cardinality({i \in 1..Len(allSpecs) :
                                  allSpecs[i].info.specName = specsByType[g].key})
           /\ \A i, j \in 1..Len(specsByType[g].val) :
                  i < j => ~MustPrecede(specsByType[g].val[j].info.version,
                                        specsByType[g].val[i].info.version)

\* A render was attempted for every record, each with all the versions of
\* the record's group.
EveryRecordRendered ==
    /\ Len(renderCalls) = Len(allSpecs)
    /\ \A i \in 1..Len(allSpecs) :
           /\ renderCalls[i].path = OutputPath(allSpecs[i].info)
           /\ \A r \in RecordSet :
                  r.info.specName = allSpecs[i].info.specName =>
                      Count(renderCalls[i].allVersions, r.info.version)
                          = Cardinality({k \in 1..Len(allSpecs) :
                                /\ allSpecs[k].info.specName = r.info.specName
                                /\ allSpecs[k].info.version = r.info.version})

\* C25: in every run discovery begins only when the fetch step has ended;
\* the files are parsed, grouped and version-sorted before the first render,
\* and each render gets every version of its group; the index is written
\* after a render was attempted for every record, and the navigation after
\* the index.
C25_StepOrder ==
    /\ pc = "fetch" => (fetched = "none" /\ NothingDiscovered)
    /\ fetched \in {"none", "cloneFailed"} => NothingDiscovered
    /\ pc \in {"scan", "firstPass", "sortSpecs", "sortVersions", "render"} =>
           /\ renderCalls = <<>> /\ writes = 0 /\ docs = before.docs
           /\ ~indexWritten /\ sidebar = before.sidebar
    /\ pc = "render" => ParsedGroupedSorted
    /\ pc \in {"index", "sidebars", "summary"} =>
           ParsedGroupedSorted /\ EveryRecordRendered
    /\ pc = "index" => ~indexWritten /\ sidebar = before.sidebar
    /\ pc = "sidebars" => indexWritten /\ sidebar = before.sidebar
    /\ pc = "summary" => indexWritten /\ sidebar = SidebarItems(specsByType)
    /\ (pc = "exited" /\ renderCalls # <<>>) =>
           /\ ParsedGroupedSorted /\ EveryRecordRendered
           /\ indexWritten /\ sidebar = SidebarItems(specsByType)

\* A run that ends after rendering a group of two versions, each document
\* with both versions, and a navigation written in this run.
C25_Witness ==
    /\ pc = "exited" /\ exitCode = 0
    /\ fetched \in {"cloned", "pulled"}
    /\ Len(allSpecs) = 2
    /\ renderCalls = <<[path |-> OutputPath(allSpecs[1].info),
                        allVersions |-> <<V0_10_0, V0_9_0>>],
                       [path |-> OutputPath(allSpecs[2].info),
                        allVersions |-> <<V0_10_0, V0_9_0>>]>>
    /\ indexWritten
    /\ sidebar # before.sidebar

\* The group a navigation entry links to: its id up to the slash.
NavIdName(id) == SubSeq(id, 1, FirstIndex(id, "/", 1) - 1)

NavNames == {NavIdName(sidebar[i].id) : i \in 2..Len(sidebar)}

\* C19: every run that gets past the fetch step writes the index document
\* and the navigation, and the navigation then lists exactly the groups
\* ingested in that run.
C19_OutputsRegenerated ==
    (pc = "exited" /\ fetched \in {"cloned", "pulled", "pullFailed"}) =>
        /\ indexWritten
        /\ Len(sidebar) > 0
        /\ NavNames = GroupNames

\* C20: across successful runs, the record documents in the output directory
\* after a run are exactly those of the records ingested by that run.
C20_NoStaleDocuments ==
    (pc = "exited" /\ exitCode = 0 /\ before.allOk) =>
        {d.path : d \in docs} = {OutputPath(r.info) : r \in RecordSet}

----------------------------------------------------------------------------
(* generateExampleFromSchema *)

\* Values: null, undefined, a string, a number, true, an array, an object
\* (its properties in insertion order).
Value(kind, str, num, items, props) ==
    [kind |-> kind, str |-> str, num |-> num, items |-> items, props |-> props]

Null == Value("null", "", 0, <<>>, <<>>)
Undefined == Value("undefined", "", 0, <<>>, <<>>)
StrVal(t) == Value("string", t, 0, <<>>, <<>>)
NumVal(n) == Value("number", "", n, <<>>, <<>>)
TrueVal == Value("boolean", "true", 0, <<>>, <<>>)
ArrayVal(items) == Value("array", "", 0, items, <<>>)
ObjectVal(props) == Value("object", "", 0, <<>>, props)

\* A schema node. pattern is "" when absent, "digits" for a pattern that
\* contains \d and "letters" for one that does not. example, default,
\* minimum, maximum and ref are <<>> when
\* the key is absent and <<value>> otherwise; items is 0 when absent or
\* falsy, else the node it refers to; properties holds [key, node] pairs,
\* node 0 standing for a null schema.
BlankNode ==
    [type |-> "", example |-> <<>>, default |-> <<>>,
     hasEnum |-> FALSE, enum |-> <<>>, format |-> "", pattern |-> "",
     minimum |-> <<>>, maximum |-> <<>>, items |-> 0,
     hasProperties |-> FALSE, properties |-> <<>>, required |-> {},
     ref |-> <<>>, oneOf |-> <<>>, anyOf |-> <<>>]

\* A variant that lets the default win over the example.
ExplicitValueDefaultFirst(node) ==
    IF node.default # <<>> THEN node.default ELSE node.example

\* schema.example when it is not undefined, else schema.default when it is
\* not undefined: <<value>>, or <<>> when neither is there.
ExplicitValue(node) ==
    IF node.example # <<>> THEN node.example ELSE node.default

\* case 'string'
StringExample(node) ==
    IF node.hasEnum
    THEN IF Len(node.enum) > 0 THEN node.enum[1] ELSE Undefined
    ELSE IF node.format \in {"uri", "url"} THEN StrVal("https://example.com")
    ELSE IF node.format = "email" THEN StrVal("user@example.com")
    ELSE IF node.format = "date" THEN StrVal("2024-01-01")
    ELSE IF node.format = "date-time" THEN StrVal("2024-01-01T00:00:00Z")
    ELSE IF node.pattern = "digits" THEN StrVal("1.0.0")
    ELSE StrVal("example-string")

\* case 'number' / 'integer'
NumberExample(node) ==
    IF node.minimum # <<>> THEN node.minimum[1]
    ELSE IF node.maximum # <<>> THEN node.maximum[1]
    ELSE NumVal(1)

\* A variant that stops one level later.
DepthExceededLate(depth) == depth > 4

\* depth > 3
DepthExceeded(depth) == depth > 3

Max(a, b) == IF a >= b THEN a ELSE b

\* generateExampleFromSchema(schema, depth) on node id of graph g: the value
\* returned, and nest, the length of the longest chain of nested calls that
\* the call starts, itself included.
RECURSIVE GenerateExampleFromSchema(_, _, _)
GenerateExampleFromSchema(g, id, depth) ==
    IF id = 0 \/ DepthExceeded(depth) THEN [val |-> Null, nest |-> 1]
    ELSE LET node == g[id]
         IN IF ExplicitValue(node) # <<>>
            THEN [val |-> ExplicitValue(node)[1], nest |-> 1]
            ELSE IF node.type = "string"
            THEN [val |-> StringExample(node), nest |-> 1]
            ELSE IF node.type \in {"number", "integer"}
            THEN [val |-> NumberExample(node), nest |-> 1]
            ELSE IF node.type = "boolean"
            THEN [val |-> TrueVal, nest |-> 1]
            ELSE IF node.type = "array"
            THEN IF node.items # 0
                 THEN LET item == GenerateExampleFromSchema(g, node.items, depth + 1)
                      IN [val |-> IF item.val # Null THEN ArrayVal(<<item.val>>)
                                  ELSE ArrayVal(<<>>),
                          nest |-> 1 + item.nest]
                 ELSE [val |-> ArrayVal(<<>>), nest |-> 1]
            ELSE IF node.type = "object"
            THEN IF node.hasProperties
                 THEN LET ps == node.properties
                          step[i \in 0..Len(ps)] ==
                              IF i = 0 THEN [props |-> <<>>, nest |-> 0]
                              ELSE IF ps[i].key \in node.required \/ depth < 2
                              THEN LET v == GenerateExampleFromSchema(
                                                g, ps[i].node, depth + 1)
                                   IN [props |->
                                           IF v.val # Null
                                           THEN Append(step[i - 1].props,
                                                       [key |-> ps[i].key,
                                                        val |-> v.val])
                                           ELSE step[i - 1].props,
                                       nest |-> Max(step[i - 1].nest, v.nest)]
                              ELSE step[i - 1]
                      IN [val |-> ObjectVal(step[Len(ps)].props),
                          nest |-> 1 + step[Len(ps)].nest]
                 ELSE [val |-> ObjectVal(<<>>), nest |-> 1]
            ELSE IF node.ref # <<>>
            THEN [val |-> StrVal("# See " \o node.ref[1]), nest |-> 1]
            ELSE IF Len(node.oneOf) > 0
            THEN LET v == GenerateExampleFromSchema(g, node.oneOf[1], depth + 1)
                 IN [val |-> v.val, nest |-> 1 + v.nest]
            ELSE IF Len(node.anyOf) > 0
            THEN LET v == GenerateExampleFromSchema(g, node.anyOf[1], depth + 1)
                 IN [val |-> v.val, nest |-> 1 + v.nest]
            ELSE [val |-> Null, nest |-> 1]

----------------------------------------------------------------------------
(* generateSchemaSection: formatType *)

\* The schemas formatType(schema) calls itself on.
FormatTypeCalls(node) ==
    IF node.type # ""
    THEN IF node.type = "array" /\ node.items # 0 THEN <<node.items>> ELSE <<>>
    ELSE IF node.ref # <<>> THEN <<>>
    ELSE IF Len(node.oneOf) > 0 THEN node.oneOf
    ELSE node.anyOf

\* formatType on node id of graph g, stack holding the nodes of the calls in
\* progress. The function keeps no depth and no record of the nodes it has
\* seen: a call on a node that is on the stack already starts the same calls
\* again, without end. ends tells whether the call returns, nest is the
\* length of the longest chain of nested calls when it does.
RECURSIVE FormatType(_, _, _)
FormatType(g, id, stack) ==
    IF id \in stack THEN [ends |-> FALSE, nest |-> 0]
    ELSE LET calls == FormatTypeCalls(g[id])
             step[i \in 0..Len(calls)] ==
                 IF i = 0 THEN [ends |-> TRUE, nest |-> 0]
                 ELSE IF ~step[i - 1].ends THEN step[i - 1]
                 ELSE LET r == FormatType(g, calls[i], stack \cup {id})
                      IN [ends |-> r.ends, nest |-> Max(step[i - 1].nest, r.nest)]
         IN [ends |-> step[Len(calls)].ends, nest |-> 1 + step[Len(calls)].nest]

\* generateSchemaSection(schema) on the root node: the properties table calls
\* formatType on every property schema (a null one throws a TypeError), the
\* description calls it on the schema itself when it has a type other than
\* object.
SchemaSection(g) ==
    LET root == g[1]
    IN IF root.type = "object" /\ root.hasProperties
       THEN LET ps == root.properties
                step[i \in 0..Len(ps)] ==
                    IF i = 0 THEN [ends |-> TRUE, nest |-> 0, throws |-> FALSE]
                    ELSE IF ~step[i - 1].ends \/ step[i - 1].throws THEN step[i - 1]
                    ELSE IF ps[i].node = 0
                    THEN [step[i - 1] EXCEPT !.throws = TRUE]
                    ELSE LET r == FormatType(g, ps[i].node, {})
                         IN [ends |-> r.ends,
                             nest |-> Max(step[i - 1].nest, r.nest),
                             throws |-> FALSE]
            IN step[Len(ps)]
       ELSE IF root.type # ""
       THEN LET r == FormatType(g, 1, {})
            IN [ends |-> r.ends, nest |-> r.nest, throws |-> FALSE]
       ELSE [ends |-> TRUE, nest |-> 0, throws |-> FALSE]

----------------------------------------------------------------------------
(* Specification SpecExample: an example is generated from a schema graph *)

NumSchemaNodes == 2

SchemaIds == 1..NumSchemaNodes

ExampleE == StrVal("e")
DefaultD == StrVal("d")

KeyX == "x"
KeyY == "y"

\* Nodes without children.
LeafNodes ==
    {[BlankNode EXCEPT !.type = "string"],
     [BlankNode EXCEPT !.type = "string", !.hasEnum = TRUE,
                       !.enum = <<StrVal("first"), StrVal("second")>>],
     [BlankNode EXCEPT !.type = "string", !.hasEnum = TRUE],
     [BlankNode EXCEPT !.type = "string", !.format = "uri"],
     [BlankNode EXCEPT !.type = "string", !.format = "email"],
     [BlankNode EXCEPT !.type = "string", !.format = "date"],
     [BlankNode EXCEPT !.type = "string", !.format = "date-time"],
     [BlankNode EXCEPT !.type = "string", !.pattern = "digits"],
     [BlankNode EXCEPT !.type = "string", !.pattern = "letters"],
     [BlankNode EXCEPT !.type = "integer"],
     [BlankNode EXCEPT !.type = "number", !.minimum = <<NumVal(0)>>,
                       !.maximum = <<NumVal(9)>>],
     [BlankNode EXCEPT !.type = "number", !.maximum = <<NumVal(9)>>],
     [BlankNode EXCEPT !.type = "boolean"],
     [BlankNode EXCEPT !.type = "array"],
     [BlankNode EXCEPT !.type = "object"],
     [BlankNode EXCEPT !.ref = <<"r">>],
     BlankNode}

\* Nodes that refer to nodes of the graph, 0 being a null schema.
InnerNodes ==
    {[BlankNode EXCEPT !.type = "array", !.items = c] : c \in SchemaIds}
    \cup {[BlankNode EXCEPT !.type = "object", !.hasProperties = TRUE,
                            !.properties = <<[key |-> KeyX, node |-> c]>>,
                            !.required = req] :
             c \in {0} \cup SchemaIds, req \in {{}, {KeyX}}}
    \cup {[BlankNode EXCEPT !.type = "object", !.hasProperties = TRUE,
                            !.properties = <<[key |-> KeyX, node |-> c],
                                             [key |-> KeyY, node |-> d]>>,
                            !.required = {KeyY}] :
             c \in SchemaIds, d \in SchemaIds}
    \cup {[BlankNode EXCEPT !.oneOf = <<c>>] : c \in SchemaIds}
    \cup {[BlankNode EXCEPT !.anyOf = <<c>>] : c \in SchemaIds}

\* Some nodes carry an example, a default, or both.
WithExplicit(nodes) ==
    {[n EXCEPT !.example = e, !.default = d] :
        n \in nodes, e \in {<<>>, <<ExampleE>>}, d \in {<<>>, <<DefaultD>>}}

SchemaNodes ==
    LeafNodes \cup InnerNodes
    \cup WithExplicit({[BlankNode EXCEPT !.type = "string", !.format = "uri"],
                       [BlankNode EXCEPT !.type = "string", !.hasEnum = TRUE,
                                         !.enum = <<StrVal("first")>>],
                       [BlankNode EXCEPT !.type = "number", !.minimum = <<NumVal(0)>>],
                       [BlankNode EXCEPT !.type = "array", !.items = 1],
                       [BlankNode EXCEPT !.example = <<Null>>]})

InitExample ==
    /\ pc = "example"
    /\ schemaGraph \in [SchemaIds -> SchemaNodes]
    /\ exampleOut = <<>>
    /\ formatOut = <<>>
    /\ VersionsIdle /\ PipeIdle /\ HierarchyIdle /\ ChainIdle /\ AttrIdle
    /\ ReportIdle /\ RunsIdle /\ OrderIdle

\* generateExampleFromSchema(spec.schema), the root being node 1
GenerateExample ==
    /\ pc = "example"
    /\ exampleOut' = GenerateExampleFromSchema(schemaGraph, 1, 0)
    /\ pc' = "exampleDone"
    /\ UNCHANGED <<schemaGraph, formatOut, versionVars, pipeVars, typeHierarchy,
                   chainVars, attrVars, reportVars, runVars, orderVars>>

\* generateSchemaSection(spec.schema), the root being node 1
GenerateSchemaSection ==
    /\ pc = "example"
    /\ formatOut' = SchemaSection(schemaGraph)
    /\ pc' = "schemaDone"
    /\ UNCHANGED <<schemaGraph, exampleOut, versionVars, pipeVars, typeHierarchy,
                   chainVars, attrVars, reportVars, runVars, orderVars>>

NextExample == GenerateExample \/ GenerateSchemaSection

SpecExample == InitExample /\ [][NextExample]_vars

----------------------------------------------------------------------------
(* Properties of the generated example *)

\* C13: the generation ends on every schema graph, the self-referential ones
\* included: a call at a depth above 3 returns without a further call, and
\* each call is one deeper than its caller, so that no chain of nested calls
\* is longer than 5.
C13_ExampleTerminates ==
    pc = "exampleDone" =>
        /\ exampleOut.nest <= 5
        /\ \A id \in SchemaIds :
               /\ GenerateExampleFromSchema(schemaGraph, id, 4).nest = 1
               /\ \A d \in 0..3 :
                      GenerateExampleFromSchema(schemaGraph, id, d).nest <= 5 - d

\* A node whose items are the node itself: the calls nest five deep.
C13_Witness ==
    /\ pc = "exampleDone"
    /\ schemaGraph[1].type = "array" /\ schemaGraph[1].items = 1
    /\ schemaGraph[1].example = <<>> /\ schemaGraph[1].default = <<>>
    /\ exampleOut.nest = 5

\* C14: at every depth from which a value is produced, a node with an example
\* yields the example whatever else it holds, and a node with a default and
\* no example yields the default.
C14_ExamplePrecedence ==
    pc = "exampleDone" =>
        \A id \in SchemaIds : \A d \in 0..3 :
            LET node == schemaGraph[id]
                out == GenerateExampleFromSchema(schemaGraph, id, d).val
            IN /\ node.example # <<>> => out = node.example[1]
               /\ (node.example = <<>> /\ node.default # <<>>) => out = node.default[1]

\* The root has an example and a default, a type and a format: the example
\* is the result.
C14_Witness ==
    /\ pc = "exampleDone"
    /\ schemaGraph[1].example = <<ExampleE>>
    /\ schemaGraph[1].default = <<DefaultD>>
    /\ schemaGraph[1].type = "string" /\ schemaGraph[1].format = "uri"
    /\ exampleOut.val = ExampleE

\* C22: for a string node without example and default, the result is the
\* first enum value when the node is enumerated, else the fixed literal of
\* its format (URI, email, date, date-time), else the generic placeholder,
\* whatever the pattern of the node.
C22_StringExample ==
    LET node == schemaGraph[1]
    IN (/\ pc = "exampleDone"
        /\ node.type = "string"
        /\ node.example = <<>> /\ node.default = <<>>
        /\ node.hasEnum => Len(node.enum) > 0)
       => exampleOut.val =
              IF node.hasEnum THEN node.enum[1]
              ELSE IF node.format \in {"uri", "url"} THEN StrVal("https://example.com")
              ELSE IF node.format = "email" THEN StrVal("user@example.com")
              ELSE IF node.format = "date" THEN StrVal("2024-01-01")
              ELSE IF node.format = "date-time" THEN StrVal("2024-01-01T00:00:00Z")
              ELSE StrVal("example-string")

\* C22 for the string nodes whose pattern has no \d.
C22_WithoutDigitPattern ==
    (pc = "exampleDone" /\ schemaGraph[1].pattern # "digits") => C22_StringExample

\* C30: the schema section is rendered with a bounded number of nested
\* formatType calls on every schema graph, the self-referential ones
\* included.
C30_FormatTypeTerminates ==
    pc = "schemaDone" => formatOut.ends

\* C30 for the schema graphs in which formatType meets no node twice on one
\* chain of calls.
C30_EndsWithoutCycle ==
    (pc = "schemaDone" /\ formatOut.ends) => formatOut.nest <= NumSchemaNodes

----------------------------------------------------------------------------
(* Specification SpecOrder: compareVersions on the pairs of three versions *)

V01_0_0 == <<"0", "1", ".", "0", ".", "0">>
V0_0_0 == <<"0", ".", "0", ".", "0">>
V0_0_0_a == <<"0", ".", "0", ".", "0", "-", "a">>
V0_0_0_b == <<"0", ".", "0", ".", "0", "-", "b">>
RawA == <<"a">>
RawB == <<"b">>
Raw1_0 == <<"1", ".", "0">>
Raw1_0_0_ == <<"1", ".", "0", ".", "0", "-">>

\* Plain, tagged, with a leading zero, and unparseable version strings.
OrderPool ==
    {V2_0_0, V1_0_0, V01_0_0, V1_0_0_b, V1_0_0_beta, V0_10_0, V0_9_0,
     V0_0_0, V0_0_0_a, V0_0_0_b, V3_0_0_b, RawA, RawB, Raw1_0, Raw1_0_0_}

InitOrder ==
    /\ pc = "compare"
    /\ cmpIn \in [1..3 -> OrderPool]
    /\ cmpOut = <<>>
    /\ VersionsIdle /\ PipeIdle /\ HierarchyIdle /\ ChainIdle /\ AttrIdle
    /\ ReportIdle /\ RunsIdle /\ ExampleIdle

\* compareVersions on every pair, and the group sorted from two discovery
\* orders (sorts[FALSE]: as found, sorts[TRUE]: found in the reverse order).
CompareTriple ==
    /\ pc = "compare"
    /\ cmpOut' = [cmp |-> [i \in 1..3 |->
                              [j \in 1..3 |-> CompareVersions(cmpIn[i], cmpIn[j])]],
                  sorts |-> [reversed \in BOOLEAN |->
                                SortVersionList(IF reversed THEN Reverse(cmpIn)
                                                ELSE cmpIn)]]
    /\ pc' = "compared"
    /\ UNCHANGED <<cmpIn, versionVars, pipeVars, typeHierarchy, chainVars,
                   attrVars, reportVars, runVars, exampleVars>>

SummariseGroup ==
    /\ pc = "compared"
    /\ summary' = <<SummaryLine(NameA, cmpOut.sorts[FALSE])>>
    /\ pc' = "summarised"
    /\ UNCHANGED <<orderVars, versionVars, pipeVars, typeHierarchy, chainVars,
                   attrVars, indexFile, runVars, exampleVars>>

NextOrder == CompareTriple \/ SummariseGroup

SpecOrder == InitOrder /\ [][NextOrder]_vars

----------------------------------------------------------------------------
(* Properties of the version order *)

Sign(x) == IF x < 0 THEN -1 ELSE IF x > 0 THEN 1 ELSE 0

Antisymmetric ==
    \A i, j \in 1..3 : Sign(cmpOut.cmp[i][j]) = -Sign(cmpOut.cmp[j][i])

Transitive ==
    \A i, j, k \in 1..3 :
        (cmpOut.cmp[i][j] <= 0 /\ cmpOut.cmp[j][k] <= 0) => cmpOut.cmp[i][k] <= 0

\* C15: compareVersions is antisymmetric and transitive, equates only equal
\* strings, and so sorts a group into the same order whatever the order of
\* discovery.
C15_TotalOrder ==
    pc \in {"compared", "summarised"} =>
        /\ Antisymmetric
        /\ Transitive
        /\ \A i, j \in 1..3 : cmpOut.cmp[i][j] = 0 => cmpIn[i] = cmpIn[j]
        /\ cmpOut.sorts[FALSE] = cmpOut.sorts[TRUE]

\* compareVersions is a total preorder: all of C15 but the distinction of
\* different strings.
C15_TotalPreorder == pc \in {"compared", "summarised"} => Antisymmetric /\ Transitive

Parseable(v) == VersionMatch(v).matched

Tag(v) == VersionMatch(v).g4

NumericParts(v) ==
    <<ParseInt(VersionMatch(v).g1), ParseInt(VersionMatch(v).g2),
      ParseInt(VersionMatch(v).g3)>>

\* C16: an unparseable version is ordered as 0.0.0 with the raw string as
\* prerelease tag: after every parseable version without a tag and after
\* every version with a numeric part that is not zero, and by comparison of
\* the tags relative to unparseable versions and to tagged 0.0.0 versions.
C16_UnparseableOrder ==
    pc \in {"compared", "summarised"} =>
        \A i, j \in 1..3 :
            LET a == cmpIn[i]
                b == cmpIn[j]
                c == cmpOut.cmp[i][j]
            IN ~Parseable(a) =>
                /\ c = CompareVersions(V0_0_0 \o <<"-">> \o a, b)
                /\ (Parseable(b) /\ Tag(b) = <<>>) => c > 0
                /\ (Parseable(b) /\ NumericParts(b) # <<0, 0, 0>>) => c > 0
                /\ ~Parseable(b) => Sign(c) = LocaleCompare(a, b)
                /\ (Parseable(b) /\ NumericParts(b) = <<0, 0, 0>> /\ Tag(b) # <<>>)
                       => Sign(c) = LocaleCompare(a, Tag(b))

\* An unparseable version is compared with 0.0.0, with a tagged 0.0.0 and
\* with another unparseable version.
C16_Witness ==
    /\ pc = "compared"
    /\ cmpIn = <<RawB, V0_0_0, V0_0_0_a>>
    /\ cmpOut.cmp[1][2] > 0
    /\ cmpOut.cmp[1][3] > 0
    /\ cmpOut.sorts[FALSE] = <<V0_0_0, V0_0_0_a, RawB>>

\* The text up to the first c, and the text after it (<<>> when c is not in t).
Before(t, c) ==
    IF FirstIndex(t, c, 1) = 0 THEN t ELSE SubSeq(t, 1, FirstIndex(t, c, 1) - 1)

After(t, c) ==
    IF FirstIndex(t, c, 1) = 0 THEN <<>> ELSE Drop(t, FirstIndex(t, c, 1))

AllDigits(t) == t # <<>> /\ \A i \in 1..Len(t) : IsDigit(t[i])

\* MAJOR.MINOR.PATCH, nothing more, with a major that is not zero.
PlainWithMajor(v) ==
    LET major == Before(v, ".")
        minor == Before(After(v, "."), ".")
        patch == After(After(v, "."), ".")
    IN /\ AllDigits(major) /\ AllDigits(minor) /\ AllDigits(patch)
       /\ \E i \in 1..Len(major) : major[i] # "0"

GroupVersions == {cmpIn[i] : i \in 1..3}

\* C17: isStableVersion holds exactly of the versions MAJOR.MINOR.PATCH
\* without tag and with a major above zero; the summary reports a latest
\* stable version only when the latest version is not stable and the group
\* has a stable one, and it is then the greatest stable version of the group.
C17_StableVersions ==
    /\ IsStableVersion(V1_0_0)
    /\ ~IsStableVersion(V0_9_0)
    /\ ~IsStableVersion(V1_0_0_rc1)
    /\ pc = "summarised" =>
          LET line == summary[1]
          IN /\ \A v \in GroupVersions : IsStableVersion(v) <=> PlainWithMajor(v)
             /\ line.latest = cmpOut.sorts[FALSE][1]
             /\ line.stable <=> PlainWithMajor(line.latest)
             /\ line.latestStable # <<>> <=>
                    /\ ~PlainWithMajor(line.latest)
                    /\ \E v \in GroupVersions : PlainWithMajor(v)
             /\ line.latestStable # <<>> =>
                    /\ line.latestStable[1] \in GroupVersions
                    /\ PlainWithMajor(line.latestStable[1])
                    /\ \A v \in GroupVersions :
                           PlainWithMajor(v) =>
                               CompareVersions(line.latestStable[1], v) <= 0

\* The latest version is a prerelease, and of the two stable versions of the
\* group the greater is reported.
C17_Witness ==
    /\ pc = "summarised"
    /\ cmpIn = <<V1_0_0, V3_0_0_b, V2_0_0>>
    /\ summary[1].latest = V3_0_0_b
    /\ ~summary[1].stable
    /\ summary[1].latestStable = <<V2_0_0>>

----------------------------------------------------------------------------
(* Properties of the index document *)

IndexGroups == indexFile[1].groups

\* C18: the index document written after the records are rendered has, for
\* every group of the ingested records, an entry with the group's title, its
\* latest version, its latest stable version when that differs, and a link
\* to every version of the group.
C18_IndexSummarisesGroups ==
    (pc = "exited" /\ exitCode = 0 /\ indexWritten) =>
        \A g \in 1..Len(specsByType) :
            \E k \in 1..Len(IndexGroups) :
                LET entry == IndexGroups[k]
                    line == SummaryLine(specsByType[g].key,
                                [j \in 1..Len(specsByType[g].val) |->
                                    specsByType[g].val[j].info.version])
                IN /\ entry.specName = specsByType[g].key
                   /\ entry.title = TitleOr(specsByType[g].val[1])
                   /\ entry.latest = line.latest
                   /\ entry.latestStable = line.latestStable
                   /\ \A j \in 1..Len(specsByType[g].val) :
                          specsByType[g].val[j].info.version \in entry.links

====
